---- MODULE Spec2Model ----
(***************************************************************************)
(* Model of the agent control core in src-tauri/src/agent/orchestrator.rs: *)
(* DynamicController::run, execute_flat_step, execute_tool (approval gate  *)
(* and tool timeout), execute_tool_batch (clamping, parallel workers,      *)
(* join/sort/fold) and execute_tool_batch_sequential.                      *)
(***************************************************************************)
EXTENDS Integers, Sequences, FiniteSets, TLC

\* ---------------------------------------------------------------------
\* Bounds of the model (not program constants)
\* ---------------------------------------------------------------------
MaxBatchLen == 2
MaxTurnsCfg == 2
MaxCallsCfg == 2
MaxRunCalls == 2
MaxNamePieces == 3
MaxHistoryLen == 4
MaxObjectKeys == 3

\* ---------------------------------------------------------------------
\* Strings produced by the code
\* ---------------------------------------------------------------------
ErrCancelled == "Cancelled"
ErrMaxTurns == "Exceeded maximum LLM turns"
ErrToolLimit == "Exceeded tool call limit"
ErrChannelClosed == "Approval channel closed"
ErrInvalidOutput == "Invalid controller output"
DeniedByApproval == "Tool execution denied by approval"
ApprovalTimedOut == "Tool approval timed out"
ToolCancelled == "Tool execution cancelled"
ToolTimedOut == "Tool execution timed out"
ToolDisconnected == "Tool execution worker disconnected"
ToolPanicked == "Tool execution panicked"
ErrUnknownTool == "Unknown tool"
ErrInvalidArgs == "Invalid args for tool"
ErrToolFailed == "tool failed"
ErrPersistFailed == "Failed to persist tool output"
ErrNoCapacity == "tool_batch requested calls but only 0 tool calls remain in this step"
ErrEmptyBatch == "tool_batch requires at least one tool call"
ErrEmptyTools == "next_step type=tool_batch requires non-empty 'tools' field"
NonApprovalMessage == "Okay, stopping since the tool request wasn't approved. Let me know how you'd like to continue."
NoError == "none"

\* ---------------------------------------------------------------------
\* Tool registry and approval overrides (external collaborators)
\* ---------------------------------------------------------------------
\* registered tools and the requires_approval default of their metadata
RegisteredTools == {"echo", "write"}
DefaultRequiresApproval == [t \in RegisteredTools |-> t = "echo"]
ToolNames == RegisteredTools \cup {"nope"}

\* a call of the model: the tool name and whether its args pass the schema
CallSpecs ==
    {[tool |-> "echo", args_ok |-> TRUE], [tool |-> "echo", args_ok |-> FALSE],
     [tool |-> "write", args_ok |-> TRUE], [tool |-> "nope", args_ok |-> TRUE]}

\* what the lookup of an override answers: Ok(None), Ok(Some(true)),
\* Ok(Some(false)), or Err when the database cannot be read
OverrideValues == {"none", "yes", "no"}
LookupResults == OverrideValues \cup {"error"}
NoOverrides == [t \in RegisteredTools |-> "none"]

VARIABLES
    config,                     \* session.config
    conv_override,              \* per-conversation approval overrides (db)
    global_override,            \* global approval overrides (db)
    cancel_flag,                \* Arc<AtomicBool>
    phase,                      \* session.phase
    plan,                       \* session.plan
    step_results,               \* session.step_results
    pending_tool_executions,
    tool_calls_in_current_step,
    requested_user_input,
    turns,                      \* local of run()
    pc,                         \* position of the controller thread
    run_result,                 \* what run() returned
    step,                       \* locals of execute_flat_step / execute_tool_batch
    call,                       \* locals of execute_tool for the current call
    agg,                        \* accumulators of the batch folds
    approval_rx,                \* the approval resolution channel
    workers,                    \* the worker threads of a parallel batch
    finish_order,               \* order in which the workers finished
    events,                     \* what was published on the event bus
    invoked,                    \* the handler invocations that have been made
    next_uuid,                  \* Uuid::new_v4 as a counter
    llm_calls,                  \* number of calls of call_llm
    decided,                    \* the decisions the model returned, in order
    cancel_at,                  \* position of the controller when cancel was requested
    arg,                        \* arguments of the function that is called on its own
    ret                         \* what that function returned

vars == <<config, conv_override, global_override, cancel_flag, phase, plan, step_results,
          pending_tool_executions, tool_calls_in_current_step, requested_user_input,
          turns, pc, run_result, step, call, agg, approval_rx, workers, finish_order,
          events, invoked, next_uuid, llm_calls, decided, cancel_at, arg, ret>>


\* ---------------------------------------------------------------------
\* Values
\* ---------------------------------------------------------------------
NoResult == [kind |-> "none"]
NoRun == [kind |-> "running", value |-> "none"]
Ok(v) == [kind |-> "Ok", value |-> v]
Err(e) == [kind |-> "Err", value |-> e]
NoStep == [type |-> "none", calls |-> <<>>, requested_calls |-> 0, dropped_calls |-> 0,
           mode |-> "none", idx |-> 0, iteration_cursor |-> 0, remaining_capacity |-> 0,
           message |-> "none",
           result |-> NoResult]
NoCall == [execution_id |-> 0, iteration |-> 0, tool |-> "none", result |-> NoResult]
NoAgg == [aggregated_tool_executions |-> <<>>, results_summary |-> <<>>,
          first_error |-> NoError, successful_calls |-> 0, runnable_calls |-> <<>>]

NoPlan == [exists |-> FALSE, id |-> 0, steps |-> <<>>]
NoArg == [fn |-> "none"]
NoRet == [fn |-> "none"]

Min(a, b) == IF a <= b THEN a ELSE b
Max(a, b) == IF a >= b THEN a ELSE b

\* all sequences over S of length lo..hi
SeqsOf(S, lo, hi) == UNION {[1..n -> S] : n \in lo..hi}

\* the decisions the model can return in one turn, given how many tool calls
\* it may still propose in this run
Decisions(budget) ==
    {[action |-> "complete", type |-> "none", calls |-> <<>>, message |-> "done"],
     [action |-> "guardrail_stop", type |-> "none", calls |-> <<>>, message |-> "guardrail"],
     [action |-> "ask_user", type |-> "none", calls |-> <<>>, message |-> "question"],
     [action |-> "invalid", type |-> "none", calls |-> <<>>, message |-> "none"],
     [action |-> "next_step", type |-> "respond", calls |-> <<>>, message |-> "reply"],
     [action |-> "next_step", type |-> "ask_user", calls |-> <<>>, message |-> "question"],
     [action |-> "next_step", type |-> "tool_batch", calls |-> <<>>, message |-> "none"]}
    \cup {[action |-> "next_step", type |-> "tool", calls |-> <<c>>, message |-> "none"] :
        c \in IF budget >= 1 THEN CallSpecs ELSE {}}
    \cup {[action |-> "next_step", type |-> "tool_batch", calls |-> cs, message |-> "none"] :
        cs \in SeqsOf(CallSpecs, 1, Min(MaxBatchLen, budget))}

RECURSIVE SumRequested(_)
SumRequested(steps) ==
    IF steps = <<>> THEN 0
    ELSE Len(steps[1].action.calls) + SumRequested(Tail(steps))

\* ---------------------------------------------------------------------
\* Initial state: DynamicController::new followed by the call of run()
\* ---------------------------------------------------------------------
Configs == [max_total_llm_turns : 0..MaxTurnsCfg,
            max_tool_calls_per_step : 0..MaxCallsCfg,
            tool_execution_timeout_ms : {0, 1}]

\* the overrides stored for the conversation: "echo" is approval-free by a global
\* override of its default, "write" needs approval by a conversation override
\* that wins over the global one
OverrideScenarios ==
    {[conv |-> [NoOverrides EXCEPT !["write"] = "yes"],
      global |-> [t \in RegisteredTools |-> "no"]]}

\* the fields of a controller on which run() has not started yet
ControllerAtStart ==
    /\ cancel_flag = FALSE
    /\ phase = "Controller"
    /\ plan = NoPlan
    /\ step_results = <<>>
    /\ pending_tool_executions = <<>>
    /\ tool_calls_in_current_step = 0
    /\ requested_user_input = FALSE
    /\ turns = 0
    /\ run_result = NoRun
    /\ step = NoStep
    /\ call = NoCall
    /\ agg = NoAgg
    /\ approval_rx = "none"
    /\ workers = <<>>
    /\ finish_order = <<>>
    /\ events = <<>>
    /\ invoked = {}
    /\ next_uuid = 1
    /\ llm_calls = 0
    /\ decided = <<>>
    /\ cancel_at = "none"

Init ==
    /\ config \in Configs
    /\ \E o \in OverrideScenarios : conv_override = o.conv /\ global_override = o.global
    /\ ControllerAtStart
    /\ pc = "loop_top"
    /\ arg = NoArg
    /\ ret = NoRet

\* what no step of the controller changes: the configuration, the stored
\* overrides, and the frame of a function called on its own
envVars == <<config, conv_override, global_override, arg, ret>>
sessionVars == <<phase, plan, step_results, pending_tool_executions, requested_user_input>>
batchVars == <<agg, workers, finish_order>>
histVars == <<events, invoked, next_uuid, llm_calls, decided>>

\* ---------------------------------------------------------------------
\* DynamicController::run: the head of the turn loop
\* ---------------------------------------------------------------------
\* the turn quota check of the loop, with a quota that allows one turn too many
TurnQuotaReachedOffByOne == turns > config.max_total_llm_turns

\* the turn quota check of the loop
TurnQuotaReached == turns >= config.max_total_llm_turns

\* a loop head that never looks at the cancellation flag
LoopTopNoCancelCheck ==
    /\ pc = "loop_top"
    /\ IF TurnQuotaReached
       THEN /\ run_result' = Err(ErrMaxTurns)
            /\ pc' = "done"
            /\ UNCHANGED <<turns, tool_calls_in_current_step>>
       ELSE /\ turns' = turns + 1
            /\ tool_calls_in_current_step' = 0
            /\ pc' = "llm"
            /\ UNCHANGED run_result
    /\ UNCHANGED <<envVars, cancel_flag, sessionVars, step, call, batchVars, approval_rx,
                   histVars, cancel_at>>

LoopTop ==
    /\ pc = "loop_top"
    /\ IF cancel_flag
       THEN /\ run_result' = Err(ErrCancelled)
            /\ pc' = "done"
            /\ UNCHANGED <<turns, tool_calls_in_current_step>>
       ELSE IF TurnQuotaReached
       THEN /\ run_result' = Err(ErrMaxTurns)
            /\ pc' = "done"
            /\ UNCHANGED <<turns, tool_calls_in_current_step>>
       ELSE /\ turns' = turns + 1
            /\ tool_calls_in_current_step' = 0
            /\ pc' = "llm"
            /\ UNCHANGED run_result
    /\ UNCHANGED <<envVars, cancel_flag, sessionVars, step, call, batchVars, approval_rx,
                   histVars, cancel_at>>

\* the result of a respond / ask_user step
MessageStepResult(type, message) ==
    [kind |-> "step", success |-> TRUE, error |-> NoError, tool_executions |-> <<>>,
     output |-> IF type = "ask_user" THEN [question |-> message] ELSE [message |-> message]]

\* a finish after which the turn loop goes on
FinishAndLoopOn(response) ==
    /\ phase' = "Complete"
    /\ run_result' = Ok(response)
    /\ pc' = "loop_top"

\* DynamicController::finish
Finish(response) ==
    /\ phase' = "Complete"
    /\ run_result' = Ok(response)
    /\ pc' = "done"

\* ControllerAction::validate: the error of a decoded decision, NoError when
\* it passes
Validate(d) ==
    IF d.action = "next_step" /\ d.type = "tool_batch" /\ d.calls = <<>> THEN ErrEmptyTools
    ELSE NoError

\* an ensure_plan that makes a new plan for every step
EnsurePlanAlwaysNew == [exists |-> TRUE, id |-> turns, steps |-> <<>>]

\* ensure_plan: the plan of the session, created (with a fresh id) when absent
EnsurePlan == IF plan.exists THEN plan ELSE [exists |-> TRUE, id |-> turns, steps |-> <<>>]

\* the PlanStep execute_flat_step pushes, after update_step_status(Executing):
\* status is the field of the step in session.plan, db_status its row in the
\* database
PlanStep(sequence, d) ==
    [sequence |-> sequence, action |-> [type |-> d.type, calls |-> d.calls],
     status |-> "Proposed", db_status |-> "Executing", has_result |-> FALSE]

\* call_controller and the dispatch on the decision, up to the point where
\* execute_flat_step hands the step to its executor
LlmDecide(d) ==
    /\ pc = "llm"
    /\ llm_calls' = llm_calls + 1
    /\ decided' = Append(decided, d)
    /\ CASE d.action = "invalid" ->
              /\ run_result' = Err(ErrInvalidOutput)
              /\ pc' = "done"
              /\ UNCHANGED <<phase, plan, requested_user_input, step, tool_calls_in_current_step>>
         [] d.action = "next_step" /\ Validate(d) # NoError ->
              /\ run_result' = Err(Validate(d))
              /\ pc' = "done"
              /\ UNCHANGED <<phase, plan, requested_user_input, step, tool_calls_in_current_step>>
         [] d.action = "complete" ->
              /\ Finish(d.message)
              /\ UNCHANGED <<plan, requested_user_input, step, tool_calls_in_current_step>>
         [] d.action = "guardrail_stop" ->
              /\ phase' = "GuardrailStop"
              /\ run_result' = Err(d.message)
              /\ pc' = "done"
              /\ UNCHANGED <<plan, requested_user_input, step, tool_calls_in_current_step>>
         [] d.action = "ask_user" ->
              /\ requested_user_input' = TRUE
              /\ Finish(d.message)
              /\ UNCHANGED <<plan, step, tool_calls_in_current_step>>
         [] d.action = "next_step" /\ Validate(d) = NoError ->
              /\ plan' = [EnsurePlan EXCEPT
                              !.steps = Append(@, PlanStep(Len(EnsurePlan.steps), d))]
              /\ tool_calls_in_current_step' = 0
              /\ phase' = "Executing"
              /\ step' = [NoStep EXCEPT !.type = d.type, !.calls = d.calls,
                                        !.requested_calls = Len(d.calls),
                                        !.mode = IF d.type = "tool" THEN "single" ELSE "none",
                                        !.idx = IF d.type = "tool" THEN 1 ELSE 0,
                                        !.message = d.message,
                                        !.result = IF d.type \in {"respond", "ask_user"}
                                                   THEN MessageStepResult(d.type, d.message) ELSE NoResult]
              /\ pc' = CASE d.type = "tool" -> "tool_begin"
                         [] d.type = "tool_batch" -> "batch_begin"
                         [] OTHER -> "record_step"
              /\ UNCHANGED <<run_result, requested_user_input>>
    /\ UNCHANGED <<envVars, cancel_flag, step_results, pending_tool_executions, turns, call,
                   batchVars, approval_rx, events, invoked, next_uuid, cancel_at>>

Llm == \E d \in Decisions(MaxRunCalls - SumRequested(plan.steps)) : LlmDecide(d)

\* ---------------------------------------------------------------------
\* execute_flat_step: recording the result of the step and its outcome
\* ---------------------------------------------------------------------
IsDenialMarker(e) == e \in {DeniedByApproval, ApprovalTimedOut, ToolCancelled}

\* an outcome that lets the run go on after a respond step
StepOutcomeRespondContinues(result, type, message) ==
    IF IsDenialMarker(result.error) THEN [complete |-> TRUE, response |-> NonApprovalMessage]
    ELSE IF type = "ask_user" THEN [complete |-> TRUE, response |-> message]
    ELSE [complete |-> FALSE, response |-> "none"]

\* the StepExecutionOutcome of execute_flat_step for a recorded result
StepOutcome(result, type, message) ==
    IF IsDenialMarker(result.error) THEN [complete |-> TRUE, response |-> NonApprovalMessage]
    ELSE IF type \in {"ask_user", "respond"} THEN [complete |-> TRUE, response |-> message]
    ELSE [complete |-> FALSE, response |-> "none"]

\* a status of the finished step that puts a failed step back to Proposed
StepStatusOrProposed(result) == IF result.success THEN "Completed" ELSE "Proposed"

\* the StepStatus of a finished step
StepStatus(result) == IF result.success THEN "Completed" ELSE "Failed"

\* a session that keeps the result of the last step only
RecordedStepResultsLastOnly(result) == <<result>>

\* session.step_results.push(result)
RecordedStepResults(result) == Append(step_results, result)

\* a return to Controller after every step
PhaseAfterStepAlwaysController(type) == "Controller"

\* the phase execute_flat_step leaves once the result is recorded:
\* set_phase(Controller) unless the step has an ask_user payload
PhaseAfterStep(type) == IF type = "ask_user" THEN phase ELSE "Controller"

\* execute_flat_step from the status of the finished step to the phase it
\* leaves: the result is recorded, and the phase goes back to Controller
\* unless the step asked the user. A step that continues the run returns to
\* the loop; a step that completes it goes on to its outcome.
RecordStep ==
    /\ pc = "record_step"
    /\ LET result == step.result
           n == Len(plan.steps)
           outcome == StepOutcome(result, step.type, step.message)
       IN /\ plan' = [plan EXCEPT !.steps[n].status = StepStatus(result),
                                  !.steps[n].db_status = StepStatus(result),
                                  !.steps[n].has_result = TRUE]
          /\ step_results' = RecordedStepResults(result)
          /\ phase' = PhaseAfterStep(step.type)
          /\ pc' = IF outcome.complete THEN "step_complete" ELSE "loop_top"
    /\ step' = NoStep
    /\ call' = NoCall
    /\ agg' = NoAgg
    /\ workers' = <<>>
    /\ finish_order' = <<>>
    /\ UNCHANGED <<envVars, cancel_flag, pending_tool_executions, requested_user_input,
                   tool_calls_in_current_step, turns, run_result, approval_rx, histVars,
                   cancel_at>>

\* what execute_flat_step still holds of the step once its result is
\* recorded: the decision it executes (effective type, message or question)
\* and the error of the result
StepInOutcome == decided[Len(decided)]
ResultInOutcome == step_results[Len(step_results)]
AsksUser == StepInOutcome.type = "ask_user" /\ ~IsDenialMarker(ResultInOutcome.error)

\* the outcome Complete of execute_flat_step (a denial marker, an ask_user
\* step, a respond step) and run() finishing with its response
StepComplete ==
    /\ pc = "step_complete"
    /\ requested_user_input' = (requested_user_input \/ AsksUser)
    /\ Finish(StepOutcome(ResultInOutcome, StepInOutcome.type, StepInOutcome.message).response)
    /\ UNCHANGED <<envVars, cancel_flag, plan, step_results, pending_tool_executions,
                   tool_calls_in_current_step, turns, step, call, batchVars, approval_rx,
                   histVars, cancel_at>>

\* ---------------------------------------------------------------------
\* The environment: the user cancels the run
\* ---------------------------------------------------------------------
\* the controller thread is blocked (in the model call, in a handler, in a
\* recv_timeout) or about to load the flag, or a worker thread is
CancelVisible ==
    \/ pc \in {"loop_top", "llm", "approval_check", "approval_recv", "pre_invoke",
               "tool_check", "tool_recv", "tool_direct", "batch_dispatch"}
    \/ pc = "batch_join" /\ \E w \in DOMAIN workers : workers[w].state \in {"check", "recv"}

\* what the run is doing when the cancellation is requested
CancelPoint ==
    CASE pc \in {"approval_check", "approval_recv"} -> "approval_wait"
      [] pc \in {"tool_check", "tool_recv"} -> "tool_wait"
      [] pc = "batch_join" -> "batch_wait"
      [] pc = "loop_top" /\ turns > 0 -> "between_turns"
      [] OTHER -> "elsewhere"

\* cancel_flag.store(true). A store made while the controller runs straight
\* code between two of these points is the store made at the next of them.
Cancel ==
    /\ CancelVisible
    /\ ~cancel_flag
    /\ cancel_flag' = TRUE
    /\ cancel_at' = CancelPoint
    /\ UNCHANGED <<envVars, sessionVars, tool_calls_in_current_step, turns, pc, run_result,
                   step, call, batchVars, approval_rx, histVars>>

\* ---------------------------------------------------------------------
\* execute_tool: quota, preflight, approval gate, invocation, record
\* ---------------------------------------------------------------------
\* a resolution that asks the global overrides first
ResolveRequiresApprovalGlobalFirst(tool_name) ==
    IF global_override[tool_name] = "error" THEN DefaultRequiresApproval[tool_name]
    ELSE IF global_override[tool_name] # "none" THEN global_override[tool_name] = "yes"
    ELSE IF conv_override[tool_name] \in {"none", "error"} THEN DefaultRequiresApproval[tool_name]
    ELSE conv_override[tool_name] = "yes"

\* resolve_requires_approval: the lookup of the conversation override, then of
\* the global one; a lookup that fails ("error") ends with the declared default
ResolveRequiresApproval(tool_name) ==
    IF conv_override[tool_name] = "error" THEN DefaultRequiresApproval[tool_name]
    ELSE IF conv_override[tool_name] # "none" THEN conv_override[tool_name] = "yes"
    ELSE IF global_override[tool_name] \in {"none", "error"} THEN DefaultRequiresApproval[tool_name]
    ELSE global_override[tool_name] = "yes"

\* an event of the bus; cause records how an approval wait ended in a denial
Event(type, execution_id) == [type |-> type, execution_id |-> execution_id, cause |-> "none"]
DeniedEvent(execution_id, cause) == [type |-> "denied", execution_id |-> execution_id, cause |-> cause]

ToolExecutionRecord(execution_id, idx, tool_name, success, error, iteration) ==
    [execution_id |-> execution_id, call |-> idx, tool_name |-> tool_name,
     success |-> success, error |-> error, iteration |-> iteration]

PendingInput(rec) ==
    [id |-> rec.execution_id, tool_name |-> rec.tool_name, success |-> rec.success,
     error |-> rec.error, iteration_number |-> rec.iteration]

\* the output of a StepResult: none, the value of the tool, or an error payload
NoOutput == [none |-> TRUE]
ToolOutput == [value |-> "tool output"]
ErrorOutput(error) == [message |-> error, success |-> FALSE]

\* a StepResult that forgets the record of the call
ToolStepResultWithoutRecord(rec, output) ==
    [kind |-> "step", success |-> rec.success, error |-> rec.error,
     tool_executions |-> <<>>, output |-> output]

\* the StepResult execute_tool returns for one record
ToolStepResult(rec, output) ==
    [kind |-> "step", success |-> rec.success, error |-> rec.error,
     tool_executions |-> <<rec>>, output |-> output]

\* a preflight that looks the tool up and takes any args
PreflightErrorRegistryOnly(spec) ==
    IF spec.tool \notin RegisteredTools THEN ErrUnknownTool ELSE NoError

\* the error of the preflight checks of a call, NoError when it passes
PreflightError(spec) ==
    IF spec.tool \notin RegisteredTools THEN ErrUnknownTool
    ELSE IF ~spec.args_ok THEN ErrInvalidArgs
    ELSE NoError

ToolBegin ==
    /\ pc = "tool_begin"
    /\ LET spec == step.calls[step.idx]
           iteration == tool_calls_in_current_step + 1
           perr == PreflightError(spec)
           failed == ToolExecutionRecord(next_uuid, step.idx, spec.tool, FALSE, perr, iteration)
       IN IF tool_calls_in_current_step >= config.max_tool_calls_per_step
          THEN /\ run_result' = Err(ErrToolLimit)
               /\ pc' = "done"
               /\ UNCHANGED <<call, events, pending_tool_executions, next_uuid, approval_rx>>
          ELSE IF perr # NoError
          THEN \* build_preflight_failed_step_result
               /\ events' = Append(events, Event("completed", next_uuid))
               /\ pending_tool_executions' = Append(pending_tool_executions, PendingInput(failed))
               /\ call' = [execution_id |-> next_uuid, iteration |-> iteration,
                           tool |-> spec.tool, result |-> ToolStepResult(failed, ErrorOutput(perr))]
               /\ next_uuid' = next_uuid + 1
               /\ pc' = "call_return"
               /\ UNCHANGED <<run_result, approval_rx>>
          ELSE /\ call' = [execution_id |-> next_uuid, iteration |-> iteration,
                           tool |-> spec.tool, result |-> NoResult]
               /\ next_uuid' = next_uuid + 1
               /\ UNCHANGED <<run_result, pending_tool_executions>>
               /\ IF ResolveRequiresApproval(spec.tool)
                  THEN /\ approval_rx' = "empty"
                       /\ events' = Append(events, Event("proposed", next_uuid))
                       /\ pc' = "approval_check"
                  ELSE /\ pc' = "pre_invoke"
                       /\ UNCHANGED <<approval_rx, events>>
    /\ UNCHANGED <<envVars, cancel_flag, phase, plan, step_results, requested_user_input,
                   tool_calls_in_current_step, turns, step, batchVars, invoked, llm_calls,
                   decided, cancel_at>>

\* the Denied branch of execute_tool: no invocation, a failed record. A
\* denial forced by cancellation is made without a look at the channel, which
\* keeps what it holds until execute_tool returns.
DenyCall(reason, cause) ==
    LET rec == ToolExecutionRecord(call.execution_id, step.idx, call.tool, FALSE, reason,
                                   call.iteration)
    IN /\ events' = Append(events, DeniedEvent(call.execution_id, cause))
       /\ pending_tool_executions' = Append(pending_tool_executions, PendingInput(rec))
       /\ call' = [call EXCEPT !.result = ToolStepResult(rec, NoOutput)]
       /\ approval_rx' = IF cause = "cancellation" THEN approval_rx ELSE "none"
       /\ pc' = "call_return"

approvalFrame == <<envVars, cancel_flag, phase, plan, step_results, requested_user_input,
                   tool_calls_in_current_step, turns, step, batchVars, invoked, next_uuid,
                   llm_calls, decided, cancel_at>>

\* a wait loop that polls the channel without a look at the flag
ApprovalCheckIgnoresCancel ==
    /\ pc = "approval_check"
    /\ pc' = "approval_recv"
    /\ UNCHANGED <<events, pending_tool_executions, call, approval_rx, run_result>>
    /\ UNCHANGED approvalFrame

\* head of the approval wait loop: the cancellation check
ApprovalCheck ==
    /\ pc = "approval_check"
    /\ IF cancel_flag
       THEN /\ DenyCall(ToolCancelled, "cancellation")
            /\ UNCHANGED run_result
       ELSE /\ pc' = "approval_recv"
            /\ UNCHANGED <<events, pending_tool_executions, call, approval_rx, run_result>>
    /\ UNCHANGED approvalFrame

\* recv_timeout returns the decision of the approver
ApprovalRecvDecision ==
    /\ pc = "approval_recv"
    /\ approval_rx \in {"Approved", "Denied"}
    /\ IF approval_rx = "Approved"
       THEN /\ events' = Append(events, Event("approved", call.execution_id))
            /\ approval_rx' = "none"
            /\ pc' = "pre_invoke"
            /\ UNCHANGED <<pending_tool_executions, call>>
       ELSE DenyCall(DeniedByApproval, "approver")
    /\ UNCHANGED <<approvalFrame, run_result>>

\* recv_timeout times out and approval_timeout_ms has elapsed
ApprovalRecvTimedOut ==
    /\ pc = "approval_recv"
    /\ approval_rx = "empty"
    /\ DenyCall(ApprovalTimedOut, "timeout")
    /\ UNCHANGED <<approvalFrame, run_result>>

\* recv_timeout times out and approval_timeout_ms has not elapsed yet
ApprovalRecvWait ==
    /\ pc = "approval_recv"
    /\ approval_rx = "empty"
    /\ pc' = "approval_check"
    /\ UNCHANGED <<approvalFrame, run_result, events, pending_tool_executions, call, approval_rx>>

\* recv_timeout finds the channel disconnected
ApprovalRecvClosed ==
    /\ pc = "approval_recv"
    /\ approval_rx = "closed"
    /\ run_result' = Err(ErrChannelClosed)
    /\ pc' = "done"
    /\ UNCHANGED <<approvalFrame, events, pending_tool_executions, call, approval_rx>>

\* the environment: the approver resolves the pending request
ApproverDecide(d) ==
    /\ pc \in {"approval_check", "approval_recv"}
    /\ approval_rx = "empty"
    /\ approval_rx' = d
    /\ UNCHANGED <<envVars, cancel_flag, sessionVars, tool_calls_in_current_step, turns, pc,
                   run_result, step, call, batchVars, histVars, cancel_at>>

Approver == \E d \in {"Approved", "Denied", "closed"} : ApproverDecide(d)

\* the check before the invocation, the start event and the invocation
PreInvoke ==
    /\ pc = "pre_invoke"
    /\ IF cancel_flag
       THEN /\ run_result' = Err(ErrCancelled)
            /\ pc' = "done"
            /\ UNCHANGED <<tool_calls_in_current_step, events, invoked>>
       ELSE /\ tool_calls_in_current_step' = tool_calls_in_current_step + 1
            /\ events' = Append(events, Event("started", call.execution_id))
            /\ invoked' = invoked \cup {[execution_id |-> call.execution_id,
                                         step |-> Len(plan.steps), call |-> step.idx,
                                         tool |-> call.tool]}
            /\ pc' = IF config.tool_execution_timeout_ms = 0 THEN "tool_direct" ELSE "tool_check"
            /\ UNCHANGED run_result
    /\ UNCHANGED <<envVars, cancel_flag, sessionVars, turns, step, call, batchVars,
                   approval_rx, next_uuid, llm_calls, decided, cancel_at>>

\* how execute_tool_handler_with_timeout and the classification of the value
\* end for an outcome of the call
\* (the controller treats every failed classification alike; which values
\* fail it, and with which error, is ClassifyToolResult below)
OutcomeError(outcome) ==
    CASE outcome = "ok" -> NoError
      [] outcome = "tool_error" -> ErrToolFailed
      [] outcome = "timeout" -> ToolTimedOut
      [] outcome = "cancelled" -> ToolCancelled
      [] outcome = "disconnected" -> ToolDisconnected
      [] outcome = "panic" -> ToolPanicked

\* a tail of execute_tool that queues nothing for persistence
CompleteCallUnqueued(outcome) ==
    LET rec == ToolExecutionRecord(call.execution_id, step.idx, call.tool, outcome = "ok",
                                   OutcomeError(outcome), tool_calls_in_current_step)
    IN /\ events' = Append(events, Event("completed", call.execution_id))
       /\ pending_tool_executions' = pending_tool_executions
       /\ call' = [call EXCEPT !.result =
                       ToolStepResult(rec, IF rec.success THEN ToolOutput
                                           ELSE ErrorOutput(rec.error))]
       /\ pc' = "call_return"

\* the tail of execute_tool: completed event, record, pending entry, StepResult
CompleteCall(outcome) ==
    LET rec == ToolExecutionRecord(call.execution_id, step.idx, call.tool, outcome = "ok",
                                   OutcomeError(outcome), tool_calls_in_current_step)
    IN /\ events' = Append(events, Event("completed", call.execution_id))
       /\ pending_tool_executions' = Append(pending_tool_executions, PendingInput(rec))
       /\ call' = [call EXCEPT !.result =
                       ToolStepResult(rec, IF rec.success THEN ToolOutput
                                           ELSE ErrorOutput(rec.error))]
       /\ pc' = "call_return"

waitFrame == <<envVars, cancel_flag, phase, plan, step_results, requested_user_input,
               tool_calls_in_current_step, turns, step, batchVars, approval_rx, invoked,
               next_uuid, llm_calls, decided, cancel_at>>

\* head of the timeout loop: cancellation is seen
ToolCheckCancelled ==
    /\ pc = "tool_check"
    /\ cancel_flag
    /\ CompleteCall("cancelled")
    /\ UNCHANGED <<waitFrame, run_result>>

\* head of the timeout loop: the deadline has passed
ToolCheckTimedOut ==
    /\ pc = "tool_check"
    /\ ~cancel_flag
    /\ CompleteCall("timeout")
    /\ UNCHANGED <<waitFrame, run_result>>

\* head of the timeout loop: neither, so wait on the channel
ToolCheckWait ==
    /\ pc = "tool_check"
    /\ ~cancel_flag
    /\ pc' = "tool_recv"
    /\ UNCHANGED <<waitFrame, run_result, events, pending_tool_executions, call>>

\* recv_timeout: the handler thread has answered (or died)
ToolRecv(outcome) ==
    /\ pc = "tool_recv"
    /\ CompleteCall(outcome)
    /\ UNCHANGED <<waitFrame, run_result>>

ToolRecvAny == \E outcome \in {"ok", "tool_error", "disconnected"} : ToolRecv(outcome)

\* recv_timeout: nothing yet, next slice
ToolRecvWait ==
    /\ pc = "tool_recv"
    /\ pc' = "tool_check"
    /\ UNCHANGED <<waitFrame, run_result, events, pending_tool_executions, call>>

\* tool_execution_timeout_ms = 0: the handler is called on the controller thread
ToolDirect(outcome) ==
    /\ pc = "tool_direct"
    /\ CompleteCall(outcome)
    /\ UNCHANGED <<waitFrame, run_result>>

ToolDirectAny == \E outcome \in {"ok", "tool_error"} : ToolDirect(outcome)

\* ... and a panic of the handler unwinds run()
ToolDirectPanic ==
    /\ pc = "tool_direct"
    /\ run_result' = [kind |-> "Panic", value |-> ToolPanicked]
    /\ pc' = "done"
    /\ UNCHANGED <<waitFrame, events, pending_tool_executions, call>>

\* ---------------------------------------------------------------------
\* The caller of execute_tool takes the StepResult of the call:
\* execute_flat_step for a single tool, the loop of
\* execute_tool_batch_sequential for a batch
\* ---------------------------------------------------------------------
\* a report that counts the dropped calls among the failed ones
BatchOutputDroppedAsFailed(mode, total, requested, dropped, successful, ok) ==
    [success |-> ok, batch_size |-> total, requested_calls |-> requested,
     executed_calls |-> total, dropped_calls |-> dropped,
     successful_calls |-> successful, failed_calls |-> Max(requested - successful, 0),
     execution_mode |-> mode]

\* the output of the StepResult of a batch that ran
BatchOutput(mode, total, requested, dropped, successful, ok) ==
    [success |-> ok, batch_size |-> total, requested_calls |-> requested,
     executed_calls |-> total, dropped_calls |-> dropped,
     successful_calls |-> successful, failed_calls |-> Max(total - successful, 0),
     execution_mode |-> mode]

BatchStepResult(mode, a, requested, dropped) ==
    [kind |-> "step", success |-> (a.first_error = NoError), error |-> a.first_error,
     tool_executions |-> a.aggregated_tool_executions,
     output |-> BatchOutput(mode, Len(a.results_summary), requested, dropped,
                            a.successful_calls, a.first_error = NoError)]

\* a fold that keeps the records of the last call only
FoldSequentialKeepsLast(a, call_result) ==
    [a EXCEPT !.successful_calls = IF call_result.success THEN @ + 1 ELSE @,
              !.first_error = IF ~call_result.success /\ @ = NoError THEN call_result.error ELSE @,
              !.results_summary = call_result.tool_executions,
              !.aggregated_tool_executions = call_result.tool_executions]

\* one turn of the fold of execute_tool_batch_sequential
FoldSequential(a, call_result) ==
    [a EXCEPT !.successful_calls = IF call_result.success THEN @ + 1 ELSE @,
              !.first_error = IF ~call_result.success /\ @ = NoError THEN call_result.error ELSE @,
              !.results_summary = @ \o call_result.tool_executions,
              !.aggregated_tool_executions = @ \o call_result.tool_executions]

\* a batch loop that ends the batch at the first call that was denied
CallReturnStopsAtDenial ==
    /\ pc = "call_return"
    /\ IF step.mode = "single"
       THEN /\ step' = [step EXCEPT !.result = call.result]
            /\ agg' = agg
            /\ pc' = "record_step"
       ELSE LET a == FoldSequential(agg, call.result)
            IN /\ agg' = a
               /\ IF step.idx < Len(step.calls) /\ ~IsDenialMarker(call.result.error)
                  THEN /\ step' = [step EXCEPT !.idx = @ + 1]
                       /\ pc' = "tool_begin"
                  ELSE /\ step' = [step EXCEPT !.result =
                                      BatchStepResult("sequential", a, step.requested_calls,
                                                      step.dropped_calls)]
                       /\ pc' = "record_step"
    /\ call' = NoCall
    /\ approval_rx' = "none"
    /\ UNCHANGED <<envVars, cancel_flag, sessionVars, tool_calls_in_current_step, turns,
                   run_result, workers, finish_order, histVars, cancel_at>>

CallReturn ==
    /\ pc = "call_return"
    /\ IF step.mode = "single"
       THEN /\ step' = [step EXCEPT !.result = call.result]
            /\ agg' = agg
            /\ pc' = "record_step"
       ELSE LET a == FoldSequential(agg, call.result)
            IN /\ agg' = a
               /\ IF step.idx < Len(step.calls)
                  THEN /\ step' = [step EXCEPT !.idx = @ + 1]
                       /\ pc' = "tool_begin"
                  ELSE /\ step' = [step EXCEPT !.result =
                                      BatchStepResult("sequential", a, step.requested_calls,
                                                      step.dropped_calls)]
                       /\ pc' = "record_step"
    /\ call' = NoCall
    /\ approval_rx' = "none"
    /\ UNCHANGED <<envVars, cancel_flag, sessionVars, tool_calls_in_current_step, turns,
                   run_result, workers, finish_order, histVars, cancel_at>>


\* ---------------------------------------------------------------------
\* execute_tool_batch: capacity, clamping, choice of the execution mode
\* ---------------------------------------------------------------------
\* a clamp that lets every requested call through
ClampNothing(calls, remaining_capacity) == [calls |-> calls, dropped |-> 0]

\* clamp_tool_batch_calls_to_remaining_capacity
ClampToolBatchCallsToRemainingCapacity(calls, remaining_capacity) ==
    IF Len(calls) <= remaining_capacity
    THEN [calls |-> calls, dropped |-> 0]
    ELSE [calls |-> SubSeq(calls, 1, remaining_capacity),
          dropped |-> Len(calls) - remaining_capacity]

\* a dispatcher that goes sequential only when every call needs approval
RequiresSequentialOnlyIfAll(calls) ==
    \A i \in 1..Len(calls) :
        /\ calls[i].tool \in RegisteredTools
        /\ ResolveRequiresApproval(calls[i].tool)

RequiresSequential(calls) ==
    \E i \in 1..Len(calls) :
        /\ calls[i].tool \in RegisteredTools
        /\ ResolveRequiresApproval(calls[i].tool)

NoCapacityStepResult(requested, remaining) ==
    [kind |-> "step", success |-> FALSE, error |-> ErrNoCapacity, tool_executions |-> <<>>,
     output |-> [success |-> FALSE, message |-> ErrNoCapacity, requested_calls |-> requested,
                 remaining_tool_calls |-> remaining]]

EmptyBatchStepResult ==
    [kind |-> "step", success |-> FALSE, error |-> ErrEmptyBatch, tool_executions |-> <<>>,
     output |-> [success |-> FALSE, message |-> ErrEmptyBatch]]

BatchBegin ==
    /\ pc = "batch_begin"
    /\ LET requested == Len(step.calls)
           remaining == Max(config.max_tool_calls_per_step - tool_calls_in_current_step, 0)
           clamped == ClampToolBatchCallsToRemainingCapacity(step.calls, remaining)
       IN IF requested = 0
          THEN /\ step' = [step EXCEPT !.result = EmptyBatchStepResult]
               /\ pc' = "record_step"
          ELSE IF remaining = 0
          THEN /\ step' = [step EXCEPT !.result = NoCapacityStepResult(requested, remaining),
                                       !.remaining_capacity = remaining]
               /\ pc' = "record_step"
          ELSE IF RequiresSequential(clamped.calls)
          THEN /\ step' = [step EXCEPT !.calls = clamped.calls, !.dropped_calls = clamped.dropped,
                                       !.mode = "sequential", !.idx = 1,
                                       !.remaining_capacity = remaining]
               /\ pc' = "tool_begin"
          ELSE /\ step' = [step EXCEPT !.calls = clamped.calls, !.dropped_calls = clamped.dropped,
                                       !.mode = "parallel", !.idx = 1,
                                       !.remaining_capacity = remaining,
                                       !.iteration_cursor = tool_calls_in_current_step + 1]
               /\ pc' = "batch_dispatch"
    /\ agg' = NoAgg
    /\ UNCHANGED <<envVars, cancel_flag, sessionVars, tool_calls_in_current_step, turns,
                   run_result, call, workers, finish_order, approval_rx, histVars, cancel_at>>

\* ---------------------------------------------------------------------
\* execute_tool_batch, parallel mode: the dispatch loop
\* ---------------------------------------------------------------------
BatchDispatch ==
    /\ pc = "batch_dispatch"
    /\ LET spec == step.calls[step.idx]
           perr == PreflightError(spec)
           iteration == step.iteration_cursor
           failed == ToolExecutionRecord(next_uuid, step.idx, spec.tool, FALSE, perr, iteration)
       IN IF cancel_flag
          THEN /\ run_result' = Err(ErrCancelled)
               /\ pc' = "done"
               /\ UNCHANGED <<step, agg, events, pending_tool_executions, next_uuid>>
          ELSE /\ IF perr # NoError
                  THEN /\ events' = Append(events, Event("completed", next_uuid))
                       /\ pending_tool_executions' =
                              Append(pending_tool_executions, PendingInput(failed))
                       /\ agg' = [agg EXCEPT !.results_summary = Append(@, failed),
                                             !.aggregated_tool_executions = Append(@, failed),
                                             !.first_error = IF @ = NoError THEN perr ELSE @]
                       /\ step' = [step EXCEPT !.idx = @ + 1]
                  ELSE /\ events' = Append(events, Event("started", next_uuid))
                       /\ agg' = [agg EXCEPT !.runnable_calls =
                                     Append(@, [iteration |-> iteration,
                                                execution_id |-> next_uuid,
                                                tool_name |-> spec.tool,
                                                call |-> step.idx])]
                       /\ step' = [step EXCEPT !.idx = @ + 1, !.iteration_cursor = @ + 1]
                       /\ UNCHANGED pending_tool_executions
               /\ next_uuid' = next_uuid + 1
               /\ pc' = IF step.idx = Len(step.calls) THEN "batch_spawn" ELSE "batch_dispatch"
               /\ UNCHANGED run_result
    /\ UNCHANGED <<envVars, cancel_flag, phase, plan, step_results, requested_user_input,
                   tool_calls_in_current_step, turns, call, workers, finish_order,
                   approval_rx, invoked, llm_calls, decided, cancel_at>>

\* one thread per runnable call
BatchSpawn ==
    /\ pc = "batch_spawn"
    /\ workers' = [w \in 1..Len(agg.runnable_calls) |-> [state |-> "spawned", outcome |-> "none"]]
    /\ finish_order' = <<>>
    /\ pc' = "batch_join"
    /\ UNCHANGED <<envVars, cancel_flag, sessionVars, tool_calls_in_current_step, turns,
                   run_result, step, call, agg, approval_rx, histVars, cancel_at>>

\* ---------------------------------------------------------------------
\* The worker threads: execute_parallel_tool_call under catch_unwind
\* ---------------------------------------------------------------------
workerFrame == <<envVars, cancel_flag, sessionVars, tool_calls_in_current_step, turns, pc,
                 run_result, step, call, agg, approval_rx, events, next_uuid, llm_calls,
                 decided, cancel_at>>

\* a thread closure without catch_unwind: a panic kills the thread
ThreadResultUncaught(outcome) ==
    IF outcome = "panic" THEN [state |-> "dead", outcome |-> "none"]
    ELSE [state |-> "finished", outcome |-> outcome]

\* what the thread closure returns to join(): catch_unwind turns a panic into
\* ParallelToolRunResult::from_panic
ThreadResult(outcome) == [state |-> "finished", outcome |-> outcome]

WorkerFinish(w, outcome) ==
    /\ workers' = [workers EXCEPT ![w] = ThreadResult(outcome)]
    /\ finish_order' = Append(finish_order, w)

\* the worker starts and the handler is invoked on its own thread
WorkerStart(w) ==
    /\ workers[w].state = "spawned"
    /\ workers' = [workers EXCEPT ![w].state = "check"]
    /\ invoked' = invoked \cup {[execution_id |-> agg.runnable_calls[w].execution_id,
                                 step |-> Len(plan.steps),
                                 call |-> agg.runnable_calls[w].call,
                                 tool |-> agg.runnable_calls[w].tool_name]}
    /\ UNCHANGED <<workerFrame, finish_order>>

WorkerCheckCancelled(w) ==
    /\ workers[w].state = "check"
    /\ cancel_flag
    /\ WorkerFinish(w, "cancelled")
    /\ UNCHANGED <<workerFrame, invoked>>

WorkerCheckTimedOut(w) ==
    /\ workers[w].state = "check"
    /\ ~cancel_flag
    /\ WorkerFinish(w, "timeout")
    /\ UNCHANGED <<workerFrame, invoked>>

WorkerCheckWait(w) ==
    /\ workers[w].state = "check"
    /\ ~cancel_flag
    /\ workers' = [workers EXCEPT ![w].state = "recv"]
    /\ UNCHANGED <<workerFrame, invoked, finish_order>>

\* the handler answered: a value, an error, a dead handler thread, or a value
\* whose classification panics (caught, from_panic)
WorkerRecv(w, outcome) ==
    /\ workers[w].state = "recv"
    /\ WorkerFinish(w, outcome)
    /\ UNCHANGED <<workerFrame, invoked>>

WorkerRecvWait(w) ==
    /\ workers[w].state = "recv"
    /\ workers' = [workers EXCEPT ![w].state = "check"]
    /\ UNCHANGED <<workerFrame, invoked, finish_order>>

Worker ==
    \E w \in DOMAIN workers :
        \/ WorkerStart(w)
        \/ WorkerCheckCancelled(w)
        \/ WorkerCheckTimedOut(w)
        \/ WorkerCheckWait(w)
        \/ \E outcome \in {"ok", "tool_error", "disconnected", "panic"} : WorkerRecv(w, outcome)
        \/ WorkerRecvWait(w)

\* ---------------------------------------------------------------------
\* execute_tool_batch, parallel mode: join, sort, fold
\* ---------------------------------------------------------------------
\* a join loop that gives up on the siblings as soon as one call has failed
JoinedOrOneFailed ==
    \/ \A w \in DOMAIN workers : workers[w].state \in {"finished", "dead"}
    \/ \E w \in DOMAIN workers : workers[w].state = "finished" /\ workers[w].outcome # "ok"

\* every handle.join() of the join loop has returned
AllWorkersJoined == \A w \in DOMAIN workers : workers[w].state \in {"finished", "dead"}

\* handle.join() is Err for a thread that died outside catch_unwind
ErrWorkerPanicked == "Parallel tool execution worker panicked"
AfterJoinErrors(a) ==
    IF (\E w \in DOMAIN workers : workers[w].state = "dead") /\ a.first_error = NoError
    THEN [a EXCEPT !.first_error = ErrWorkerPanicked]
    ELSE a

ParallelToolRunResult(w) ==
    [iteration |-> agg.runnable_calls[w].iteration,
     execution_id |-> agg.runnable_calls[w].execution_id,
     tool_name |-> agg.runnable_calls[w].tool_name,
     call |-> agg.runnable_calls[w].call,
     success |-> workers[w].outcome = "ok",
     error |-> OutcomeError(workers[w].outcome)]

\* stable insertion of r into a sequence sorted by iteration
RECURSIVE InsertByIteration(_, _)
InsertByIteration(sorted, r) ==
    IF sorted = <<>> THEN <<r>>
    ELSE IF sorted[Len(sorted)].iteration <= r.iteration THEN Append(sorted, r)
    ELSE Append(InsertByIteration(SubSeq(sorted, 1, Len(sorted) - 1), r), sorted[Len(sorted)])

\* sort_by_key(|result| result.iteration)
RECURSIVE SortByIteration(_)
SortByIteration(rs) ==
    IF rs = <<>> THEN <<>>
    ELSE InsertByIteration(SortByIteration(SubSeq(rs, 1, Len(rs) - 1)), rs[Len(rs)])

\* the handles that have a result, in spawn order
FinishedHandles == SelectSeq([w \in 1..Len(workers) |-> w], LAMBDA w : workers[w].state = "finished")

\* run_results collected as the workers finish, and left unsorted
RunResultsInFinishOrder ==
    [i \in 1..Len(finish_order) |-> ParallelToolRunResult(finish_order[i])]

\* run_results after the join loop and the sort
RunResultsAfterJoin ==
    SortByIteration([i \in 1..Len(FinishedHandles) |-> ParallelToolRunResult(FinishedHandles[i])])

RunRecord(r) ==
    ToolExecutionRecord(r.execution_id, r.call, r.tool_name, r.success, r.error, r.iteration)

\* the fold over the sorted run_results
RECURSIVE FoldParallel(_, _)
FoldParallel(a, rs) ==
    IF rs = <<>> THEN a
    ELSE FoldParallel(
            [a EXCEPT !.successful_calls = IF rs[1].success THEN @ + 1 ELSE @,
                      !.first_error = IF ~rs[1].success /\ @ = NoError THEN rs[1].error ELSE @,
                      !.results_summary = Append(@, RunRecord(rs[1])),
                      !.aggregated_tool_executions = Append(@, RunRecord(rs[1]))],
            Tail(rs))

RECURSIVE MaxIteration(_, _)
MaxIteration(m, rs) ==
    IF rs = <<>> THEN m ELSE MaxIteration(Max(m, rs[1].iteration), Tail(rs))

BatchJoin ==
    /\ pc = "batch_join"
    /\ AllWorkersJoined
    /\ LET rs == RunResultsAfterJoin
           a == FoldParallel(AfterJoinErrors(agg), rs)
       IN /\ agg' = a
          /\ tool_calls_in_current_step' = MaxIteration(tool_calls_in_current_step, rs)
          /\ events' = events \o [i \in 1..Len(rs) |-> Event("completed", rs[i].execution_id)]
          /\ pending_tool_executions' =
                 pending_tool_executions \o [i \in 1..Len(rs) |-> PendingInput(RunRecord(rs[i]))]
          /\ step' = [step EXCEPT !.result =
                         BatchStepResult("parallel", a, step.requested_calls,
                                         step.dropped_calls)]
    /\ pc' = "record_step"
    /\ UNCHANGED <<envVars, cancel_flag, phase, plan, step_results, requested_user_input,
                   turns, run_result, call, workers, finish_order, approval_rx, invoked,
                   next_uuid, llm_calls, decided, cancel_at>>

\* ---------------------------------------------------------------------
\* Specification
\* ---------------------------------------------------------------------
Next ==
    \/ LoopTop
    \/ Llm
    \/ RecordStep
    \/ StepComplete
    \/ ToolBegin
    \/ ApprovalCheck
    \/ ApprovalRecvDecision
    \/ ApprovalRecvTimedOut
    \/ ApprovalRecvWait
    \/ ApprovalRecvClosed
    \/ Approver
    \/ PreInvoke
    \/ ToolCheckCancelled
    \/ ToolCheckTimedOut
    \/ ToolCheckWait
    \/ ToolRecvAny
    \/ ToolRecvWait
    \/ ToolDirectAny
    \/ ToolDirectPanic
    \/ CallReturn
    \/ BatchBegin
    \/ BatchDispatch
    \/ BatchSpawn
    \/ Worker
    \/ BatchJoin
    \/ Cancel

\* the database accepts every write
Spec == Init /\ [][Next]_vars

\* The controller thread keeps running: in the loop of
\* execute_tool_handler_with_timeout it goes on to the next check or the next
\* recv_timeout slice, it returns when it sees the flag, and since the
\* deadline is finite the check "elapsed >= timeout" succeeds after finitely
\* many slices. Nothing is assumed of a tool handler: it may never return.
ControllerLoopStep == ToolCheckCancelled \/ ToolCheckWait \/ ToolRecvWait

SpecLive ==
    /\ Init
    /\ [][Next]_vars
    /\ WF_vars(ControllerLoopStep)
    /\ SF_vars(ToolCheckTimedOut)

\* ---------------------------------------------------------------------
\* The database refuses a write: the `?` after each write of the phase, the
\* plan, the steps, the step status, the step result and the completion
\* ---------------------------------------------------------------------
ErrDatabase == "database error"

\* run() returns the error of the write
ReturnDbError ==
    /\ run_result' = Err(ErrDatabase)
    /\ pc' = "done"

\* set_phase(Controller) at the head of run()
RunDbFails ==
    /\ pc = "loop_top"
    /\ turns = 0
    /\ ReturnDbError
    /\ UNCHANGED <<envVars, cancel_flag, sessionVars, tool_calls_in_current_step, turns,
                   step, call, batchVars, approval_rx, histVars, cancel_at>>

\* the writes that follow a decision of the model, up to the failing one
LlmDecideDbFails(d, write) ==
    /\ pc = "llm"
    /\ llm_calls' = llm_calls + 1
    /\ decided' = Append(decided, d)
    /\ ReturnDbError
    /\ LET pushed == [EnsurePlan EXCEPT
                          !.steps = Append(@, [PlanStep(Len(EnsurePlan.steps), d) EXCEPT
                                                  !.db_status = IF write = "save_plan_steps"
                                                                THEN "none" ELSE "Proposed"])]
       IN \/ /\ d.action = "complete"
             /\ write = "update_agent_session_completed"
             /\ UNCHANGED <<phase, plan, requested_user_input>>
          \/ /\ d.action = "ask_user"
             /\ write = "update_agent_session_completed"
             /\ requested_user_input' = TRUE
             /\ UNCHANGED <<phase, plan>>
          \/ /\ d.action = "guardrail_stop"
             /\ write = "update_agent_session_phase"
             /\ phase' = "GuardrailStop"
             /\ UNCHANGED <<plan, requested_user_input>>
          \/ /\ d.action = "next_step" /\ Validate(d) = NoError
             /\ \/ /\ write = "save_agent_plan"
                   /\ ~plan.exists
                   /\ plan' = EnsurePlan
                   /\ UNCHANGED phase
                \/ /\ write = "save_plan_steps"
                   /\ plan' = pushed
                   /\ UNCHANGED phase
                \/ /\ write \in {"update_agent_session_phase", "update_plan_step_status"}
                   /\ plan' = pushed
                   /\ phase' = "Executing"
             /\ UNCHANGED requested_user_input
    /\ UNCHANGED <<envVars, cancel_flag, step_results, pending_tool_executions,
                   tool_calls_in_current_step, turns, step, call, batchVars, approval_rx,
                   events, invoked, next_uuid, cancel_at>>

DbWrites == {"save_agent_plan", "save_plan_steps", "update_agent_session_phase",
             "update_plan_step_status", "save_step_result", "update_agent_session_completed"}

LlmDbFails ==
    \E d \in Decisions(MaxRunCalls - SumRequested(plan.steps)) :
        \E write \in DbWrites : LlmDecideDbFails(d, write)

\* set_phase(Executing) of execute_tool, after the quota check
ToolBeginDbFails ==
    /\ pc = "tool_begin"
    /\ tool_calls_in_current_step < config.max_tool_calls_per_step
    /\ ReturnDbError
    /\ UNCHANGED <<envVars, cancel_flag, sessionVars, tool_calls_in_current_step, turns,
                   step, call, batchVars, approval_rx, histVars, cancel_at>>

\* the writes that follow the execution of the step, up to the failing one
RecordStepDbFails(write) ==
    /\ pc = "record_step"
    /\ ReturnDbError
    /\ LET result == step.result
           n == Len(plan.steps)
           in_session == [plan EXCEPT !.steps[n].status = StepStatus(result),
                                      !.steps[n].has_result = TRUE]
           in_database == [in_session EXCEPT !.steps[n].db_status = StepStatus(result)]
       IN \/ /\ write = "update_plan_step_status"
             /\ plan' = in_session
             /\ UNCHANGED <<step_results, phase>>
          \/ /\ write = "save_step_result"
             /\ plan' = in_database
             /\ UNCHANGED <<step_results, phase>>
          \/ /\ write = "update_agent_session_phase"
             /\ step.type # "ask_user"
             /\ plan' = in_database
             /\ step_results' = RecordedStepResults(result)
             /\ phase' = "Controller"
    /\ UNCHANGED <<envVars, cancel_flag, pending_tool_executions, requested_user_input,
                   tool_calls_in_current_step, turns, step, call, batchVars, approval_rx,
                   histVars, cancel_at>>

\* finish, called with the response of the step: the write of the completion
\* is refused
StepCompleteDbFails ==
    /\ pc = "step_complete"
    /\ ReturnDbError
    /\ requested_user_input' = (requested_user_input \/ AsksUser)
    /\ UNCHANGED <<envVars, cancel_flag, phase, plan, step_results, pending_tool_executions,
                   tool_calls_in_current_step, turns, step, call, batchVars, approval_rx,
                   histVars, cancel_at>>

RecordDbFails == \E write \in DbWrites : RecordStepDbFails(write)

NextDb ==
    \/ Next
    \/ RunDbFails
    \/ LlmDbFails
    \/ ToolBeginDbFails
    \/ RecordDbFails
    \/ StepCompleteDbFails

\* the database may refuse any write
SpecDb == Init /\ [][NextDb]_vars


\* ---------------------------------------------------------------------
\* Functions of the module that are called on their own: the frame
\* ---------------------------------------------------------------------
\* the variables of the controller that such a call leaves alone
controllerVars == <<config, conv_override, global_override, cancel_flag, sessionVars,
                    tool_calls_in_current_step, turns, run_result, step, call, batchVars,
                    approval_rx, histVars, cancel_at>>

\* AgentConfig of a controller that runs nothing
IdleConfig == [max_total_llm_turns |-> 0, max_tool_calls_per_step |-> 0,
               tool_execution_timeout_ms |-> 0]

\* a controller that is not running, and a function about to be called with
\* one of the given arguments
CallInit(args) ==
    /\ config = IdleConfig
    /\ conv_override = NoOverrides
    /\ global_override = NoOverrides
    /\ ControllerAtStart
    /\ pc = "call"
    /\ arg \in args
    /\ ret = NoRet

\* the function returns value
Return(value) ==
    /\ pc = "call"
    /\ ret' = [fn |-> arg.fn, value |-> value]
    /\ pc' = "returned"
    /\ UNCHANGED <<controllerVars, arg>>

Returned(fn) == pc = "returned" /\ ret.fn = fn

\* ---------------------------------------------------------------------
\* resolve_requires_approval, called for one tool over every answer of the
\* two override lookups
\* ---------------------------------------------------------------------
ApprovalArgs == [fn : {"resolve_requires_approval"}, tool_name : RegisteredTools]

InitApproval ==
    /\ config = IdleConfig
    /\ conv_override \in [RegisteredTools -> LookupResults]
    /\ global_override \in [RegisteredTools -> LookupResults]
    /\ ControllerAtStart
    /\ pc = "call"
    /\ arg \in ApprovalArgs
    /\ ret = NoRet

ResolveRequiresApprovalCall ==
    /\ arg.fn = "resolve_requires_approval"
    /\ Return(ResolveRequiresApproval(arg.tool_name))

NextApproval == ResolveRequiresApprovalCall

SpecApproval == InitApproval /\ [][NextApproval]_vars

\* ---------------------------------------------------------------------
\* resolve_output_delivery and should_persist_tool_output
\* ---------------------------------------------------------------------
AUTO_INLINE_RESULT_MAX_CHARS == 4096
INLINE_RESULT_HARD_MAX_CHARS == 16384
ForcedReasonHardLimit == "inline_size_exceeds_hard_limit"
NoReason == "none"

\* a tool name is a string, modelled as the sequence of its pieces
NamePieces == {"tool_outputs", ".", "read", "gmail"}
ToolNameStrings == SeqsOf(NamePieces, 1, MaxNamePieces)

\* str::starts_with
StartsWith(str, prefix) ==
    /\ Len(str) >= Len(prefix)
    /\ SubSeq(str, 1, Len(prefix)) = prefix

\* the literal "tool_outputs."
ToolOutputsPrefix == <<"tool_outputs", ".">>

OutputModeHints == {"Auto", "Inline", "Persist"}
ToolResultModes == {"Auto", "Inline", "Persist"}
OutputCharCounts ==
    {0, 1, AUTO_INLINE_RESULT_MAX_CHARS - 1, AUTO_INLINE_RESULT_MAX_CHARS,
     AUTO_INLINE_RESULT_MAX_CHARS + 1, INLINE_RESULT_HARD_MAX_CHARS - 1,
     INLINE_RESULT_HARD_MAX_CHARS, INLINE_RESULT_HARD_MAX_CHARS + 1, 100000}

\* a should_persist_tool_output whose Auto policy persists from the threshold on
ShouldPersistToolOutputFromThreshold(tool_name, result_mode, output_chars) ==
    IF StartsWith(tool_name, ToolOutputsPrefix) THEN FALSE
    ELSE CASE result_mode = "Inline" -> output_chars > INLINE_RESULT_HARD_MAX_CHARS
           [] result_mode = "Persist" -> TRUE
           [] result_mode = "Auto" -> output_chars >= AUTO_INLINE_RESULT_MAX_CHARS

ShouldPersistToolOutput(tool_name, result_mode, output_chars) ==
    IF StartsWith(tool_name, ToolOutputsPrefix) THEN FALSE
    ELSE CASE result_mode = "Inline" -> output_chars > INLINE_RESULT_HARD_MAX_CHARS
           [] result_mode = "Persist" -> TRUE
           [] result_mode = "Auto" -> output_chars > AUTO_INLINE_RESULT_MAX_CHARS

OutputDeliveryResolution(requested, resolved, forced_persist, forced_reason) ==
    [requested_output_mode |-> requested, resolved_output_mode |-> resolved,
     forced_persist |-> forced_persist, forced_reason |-> forced_reason]

\* the arms of resolve_output_delivery that match on the requested mode
ResolveRequestedMode(tool_name, requested, result_mode, output_chars) ==
    CASE requested = "Persist" ->
            OutputDeliveryResolution(requested, "Persist", FALSE, NoReason)
      [] requested = "Inline" ->
            IF output_chars > INLINE_RESULT_HARD_MAX_CHARS
            THEN OutputDeliveryResolution(requested, "Persist", TRUE, ForcedReasonHardLimit)
            ELSE OutputDeliveryResolution(requested, "Inline", FALSE, NoReason)
      [] requested = "Auto" ->
            LET should_persist == ShouldPersistToolOutput(tool_name, result_mode, output_chars)
                forced_persist == result_mode = "Inline" /\ should_persist
            IN OutputDeliveryResolution(requested,
                                        IF should_persist THEN "Persist" ELSE "Inline",
                                        forced_persist,
                                        IF forced_persist THEN ForcedReasonHardLimit ELSE NoReason)

\* a resolver without the early return for the tool_outputs namespace
ResolveOutputDeliveryAnyName(tool_name, requested, result_mode, output_chars) ==
    ResolveRequestedMode(tool_name, requested, result_mode, output_chars)

ResolveOutputDelivery(tool_name, requested, result_mode, output_chars) ==
    IF StartsWith(tool_name, ToolOutputsPrefix)
    THEN OutputDeliveryResolution(requested, "Inline", FALSE, NoReason)
    ELSE ResolveRequestedMode(tool_name, requested, result_mode, output_chars)

DeliveryArgs ==
    [fn : {"resolve_output_delivery"}, tool_name : ToolNameStrings,
     requested_output_mode : OutputModeHints, result_mode : ToolResultModes,
     output_chars : OutputCharCounts]

InitDelivery == CallInit(DeliveryArgs)

ResolveOutputDeliveryCall ==
    /\ arg.fn = "resolve_output_delivery"
    /\ Return(ResolveOutputDelivery(arg.tool_name, arg.requested_output_mode,
                                    arg.result_mode, arg.output_chars))

NextDelivery == ResolveOutputDeliveryCall

SpecDelivery == InitDelivery /\ [][NextDelivery]_vars

\* ---------------------------------------------------------------------
\* Classification of a handler's result (execute_tool and
\* execute_parallel_tool_call share it): delivery, artifact store, record
\* ---------------------------------------------------------------------
ErrMissingOutputRef == "Resolved persisted output but missing output_ref"
NoWarning == "none"
NoDelivery == [resolved_output_mode |-> "none"]

\* what execute_tool_handler_with_timeout returned
ExecutionResults ==
    {[kind |-> "Ok", output_chars |-> n] : n \in OutputCharCounts}
        \cup {[kind |-> "Err", message |-> ErrToolFailed]}

Classified(success, output, error, warning, delivery) ==
    [success |-> success, output |-> output, error |-> error,
     artifact_persist_warning |-> warning, output_delivery |-> delivery]

\* a classification that fails the call on every store failure
ClassifyToolResultStoreRequired(tool_name, requested, result_mode, execution_result, store_ok) ==
    IF execution_result.kind = "Err"
    THEN Classified(FALSE, "error_message", execution_result.message, NoWarning, NoDelivery)
    ELSE LET delivery == ResolveOutputDelivery(tool_name, requested, result_mode,
                                               execution_result.output_chars)
             should_store_artifact == ~StartsWith(tool_name, ToolOutputsPrefix)
         IN IF should_store_artifact /\ ~store_ok
            THEN Classified(FALSE, "error_message", ErrPersistFailed, NoWarning, delivery)
            ELSE Classified(TRUE, IF delivery.resolved_output_mode = "Inline"
                                  THEN "output_value" ELSE "persisted_reference",
                            NoError, NoWarning, delivery)

\* the match on the handler's result: (success, output, error), the warning
\* and the delivery; store_ok is whether store_tool_output succeeds
ClassifyToolResult(tool_name, requested, result_mode, execution_result, store_ok) ==
    IF execution_result.kind = "Err"
    THEN Classified(FALSE, "error_message", execution_result.message, NoWarning, NoDelivery)
    ELSE LET delivery == ResolveOutputDelivery(tool_name, requested, result_mode,
                                               execution_result.output_chars)
             should_store_artifact == ~StartsWith(tool_name, ToolOutputsPrefix)
             stored == should_store_artifact /\ store_ok
             persist_error == should_store_artifact /\ ~store_ok
         IN IF delivery.resolved_output_mode = "Inline"
            THEN Classified(TRUE, "output_value", NoError,
                            IF persist_error THEN ErrPersistFailed ELSE NoWarning, delivery)
            ELSE IF persist_error
            THEN Classified(FALSE, "error_message", ErrPersistFailed, NoWarning, delivery)
            ELSE IF stored
            THEN Classified(TRUE, "persisted_reference", NoError, NoWarning, delivery)
            ELSE Classified(FALSE, "error_message", ErrMissingOutputRef, NoWarning, delivery)

ClassifyArgs ==
    [fn : {"classify_tool_result"}, tool_name : ToolNameStrings,
     requested_output_mode : OutputModeHints, result_mode : ToolResultModes,
     execution_result : ExecutionResults, store_ok : BOOLEAN]

InitClassify == CallInit(ClassifyArgs)

ClassifyToolResultCall ==
    /\ arg.fn = "classify_tool_result"
    /\ Return(ClassifyToolResult(arg.tool_name, arg.requested_output_mode, arg.result_mode,
                                 arg.execution_result, arg.store_ok))

NextClassify == ClassifyToolResultCall

SpecClassify == InitClassify /\ [][NextClassify]_vars

\* ---------------------------------------------------------------------
\* compact_history_messages_with_limits
\* ---------------------------------------------------------------------
\* an LlmMessage: which message it is, and the number of chars of
\* value_to_string of its content
ContentSizes == {0, 1, 3}
LlmMessages(n) == {[id |-> n, chars |-> c] : c \in ContentSizes}

\* the histories of n messages, the i-th message being message i
RECURSIVE Histories(_)
Histories(n) ==
    IF n = 0 THEN {<<>>}
    ELSE {Append(h, m) : h \in Histories(n - 1), m \in LlmMessages(n)}

\* message_sizes.iter().sum()
RECURSIVE TotalChars(_)
TotalChars(messages) ==
    IF messages = <<>> THEN 0 ELSE messages[1].chars + TotalChars(Tail(messages))

\* a compaction that puts a summary message between the prefix and the tail
SummaryMessage == [id |-> 0, chars |-> 1]
CompactHistoryMessagesWithSummary(messages, max_chars, prefix_messages, tail_messages) ==
    IF TotalChars(messages) <= max_chars THEN messages
    ELSE LET prefix_end == Min(Len(messages), prefix_messages)
             tail_start == Max(Len(messages) - tail_messages, 0)
         IN IF tail_start <= prefix_end THEN messages
            ELSE SubSeq(messages, 1, prefix_end) \o <<SummaryMessage>>
                     \o SubSeq(messages, tail_start + 1, Len(messages))

CompactHistoryMessagesWithLimits(messages, max_chars, prefix_messages, tail_messages) ==
    IF TotalChars(messages) <= max_chars THEN messages
    ELSE LET prefix_end == Min(Len(messages), prefix_messages)
             tail_start == Max(Len(messages) - tail_messages, 0)
         IN IF tail_start <= prefix_end THEN messages
            ELSE SubSeq(messages, 1, prefix_end)
                     \o SubSeq(messages, tail_start + 1, Len(messages))

CompactArgs ==
    [fn : {"compact_history_messages_with_limits"},
     messages : UNION {Histories(n) : n \in 0..MaxHistoryLen},
     max_chars : {0, 2, 5, 3 * MaxHistoryLen},
     stable_prefix_messages : 0..(MaxHistoryLen + 1),
     recent_tail_messages : 0..(MaxHistoryLen + 1)]

InitCompact == CallInit(CompactArgs)

CompactHistoryCall ==
    /\ arg.fn = "compact_history_messages_with_limits"
    /\ Return(CompactHistoryMessagesWithLimits(arg.messages, arg.max_chars,
                                               arg.stable_prefix_messages,
                                               arg.recent_tail_messages))

NextCompact == CompactHistoryCall

SpecCompact == InitCompact /\ [][NextCompact]_vars

\* ---------------------------------------------------------------------
\* The action decoder: parse_controller_action on a JSON object
\* ---------------------------------------------------------------------
\* JSON values. A string is the sequence of its pieces; the piece " " is
\* whitespace, every other piece is a word.
Absent == [t |-> "absent"]
Null == [t |-> "null"]
Number == [t |-> "number"]
Str(s) == [t |-> "string", s |-> s]
Array(items) == [t |-> "array", items |-> items]
Object(fields) == [t |-> "object", fields |-> fields]

\* the keys the decoder looks at; an object gives each key a value or Absent
Keys == {"action", "thinking", "type", "tool", "tool_name", "name", "tools",
         "tool_calls", "calls", "message", "response", "content", "question",
         "output_mode", "reason", "step", "next_step"}
EmptyObject == [k \in Keys |-> Absent]
With(o, k, v) == [o EXCEPT ![k] = v]

\* str::trim
RECURSIVE TrimStart(_)
TrimStart(s) == IF s # <<>> /\ s[1] = " " THEN TrimStart(Tail(s)) ELSE s
RECURSIVE TrimEnd(_)
TrimEnd(s) == IF s # <<>> /\ s[Len(s)] = " " THEN TrimEnd(SubSeq(s, 1, Len(s) - 1)) ELSE s
Trim(s) == TrimEnd(TrimStart(s))

\* normalize_controller_value, the hoisting: the fields of a nested "step"
\* object (of "next_step" when there is no "step") move to the top level
\* unless the top level has the key already
HoistStep(o) ==
    LET key == IF o["step"] # Absent THEN "step" ELSE "next_step"
        nested == o[key]
        out == With(o, key, Absent)
    IN IF nested.t = "object"
       THEN [k \in Keys |-> IF out[k] = Absent THEN nested.fields[k] ELSE out[k]]
       ELSE out

\* normalize_controller_value, one alias: it is renamed to its target key
\* when the object has no such key
NormalizeAlias(o, target, alias) ==
    IF o[target] = Absent /\ o[alias] # Absent
    THEN With(With(o, alias, Absent), target, o[alias])
    ELSE o

\* normalize_controller_value, the entries of "tools"
NormalizeToolEntry(entry) ==
    IF entry.t = "object"
    THEN Object(NormalizeAlias(NormalizeAlias(entry.fields, "tool", "tool_name"),
                               "tool", "name"))
    ELSE entry

NormalizeToolEntries(o) ==
    IF o["tools"].t = "array"
    THEN With(o, "tools", Array([i \in DOMAIN o["tools"].items |->
                                    NormalizeToolEntry(o["tools"].items[i])]))
    ELSE o

\* normalize_controller_value on an object
NormalizeControllerValue(o) ==
    LET hoisted == HoistStep(o)
        tool == NormalizeAlias(NormalizeAlias(hoisted, "tool", "tool_name"), "tool", "name")
        tools == NormalizeAlias(NormalizeAlias(tool, "tools", "tool_calls"), "tools", "calls")
        entries == NormalizeToolEntries(tools)
    IN NormalizeAlias(NormalizeAlias(entries, "message", "response"), "message", "content")

\* serde: Option<String> takes a missing key, null or a string
NoneValue == [t |-> "none"]
IsOptionString(v) == v.t \in {"absent", "null", "string"}
OptionString(v) == IF v.t = "string" THEN v ELSE NoneValue

\* serde: ControllerToolCallSpec needs a string "tool"
IsToolCallSpec(entry) ==
    /\ entry.t = "object"
    /\ entry.fields["tool"].t = "string"
    /\ IsOptionString(entry.fields["output_mode"])
ToolCallSpec(entry) ==
    [tool |-> entry.fields["tool"], output_mode |-> OptionString(entry.fields["output_mode"])]

\* serde: Option<Vec<ControllerToolCallSpec>>
IsOptionToolCallSpecs(v) ==
    \/ v.t \in {"absent", "null"}
    \/ v.t = "array" /\ \A i \in DOMAIN v.items : IsToolCallSpec(v.items[i])
OptionToolCallSpecs(v) ==
    IF v.t = "array" THEN Array([i \in DOMAIN v.items |-> ToolCallSpec(v.items[i])])
    ELSE NoneValue

\* serde_json::from_value::<ControllerAction>: whether the object has the
\* shape of a variant of the enum, which the string at "action" selects
Deserializes(o) ==
    /\ o["action"].t = "string"
    /\ \/ /\ o["action"].s = <<"next_step">>
          /\ o["thinking"] # Absent
          /\ \A k \in {"type", "tool", "output_mode", "message", "question"} :
                 IsOptionString(o[k])
          /\ IsOptionToolCallSpecs(o["tools"])
       \/ /\ o["action"].s = <<"complete">>
          /\ o["message"].t = "string"
       \/ /\ o["action"].s = <<"guardrail_stop">>
          /\ o["reason"].t = "string"
          /\ IsOptionString(o["message"])
       \/ /\ o["action"].s = <<"ask_user">>
          /\ o["question"].t = "string"

\* the ControllerAction the object deserializes into
ControllerAction(o) ==
    IF o["action"].s = <<"next_step">>
    THEN [action |-> "next_step",
          step_type |-> OptionString(o["type"]),
          tool |-> OptionString(o["tool"]),
          tools |-> OptionToolCallSpecs(o["tools"]),
          output_mode |-> OptionString(o["output_mode"]),
          message |-> OptionString(o["message"]),
          question |-> OptionString(o["question"])]
    ELSE IF o["action"].s = <<"complete">>
    THEN [action |-> "complete", message |-> o["message"].s]
    ELSE IF o["action"].s = <<"guardrail_stop">>
    THEN [action |-> "guardrail_stop", reason |-> o["reason"].s,
          message |-> OptionString(o["message"])]
    ELSE [action |-> "ask_user", question |-> o["question"].s]

\* a test that takes whitespace for content
NonBlankUntrimmed(opt) == opt.t = "string" /\ opt.s # <<>>

\* is_some_and(|s| !s.trim().is_empty())
NonBlank(opt) == opt.t = "string" /\ Trim(opt.s) # <<>>

\* infer_step_type_flat
InferStepTypeFlat(tool, tools, message, question) ==
    IF tools.t = "array" /\ tools.items # <<>> THEN Str(<<"tool_batch">>)
    ELSE IF NonBlank(tool) THEN Str(<<"tool">>)
    ELSE IF NonBlank(question) THEN Str(<<"ask_user">>)
    ELSE IF NonBlank(message) THEN Str(<<"respond">>)
    ELSE NoneValue

\* OutputModeHint::parse(mode).is_none()
OutputModeWords == {<<"auto">>, <<"inline">>, <<"persist">>}
BadOutputMode(opt) == opt.t = "string" /\ Trim(opt.s) \notin OutputModeWords

ErrToolRequired == "next_step type=tool requires non-empty 'tool' field"
ErrBadOutputMode == "Invalid output_mode"
ErrBlankBatchTool == "next_step type=tool_batch requires non-empty tool name"
ErrMessageRequired == "next_step type=respond requires non-empty 'message' field"
ErrQuestionRequired == "next_step type=ask_user requires non-empty 'question' field"
ErrNoStepType == "Cannot determine step type: provide 'type' or 'tool'/'message'/'question'"
ErrUnknownStepType == "Unknown step type"

\* the error of the first entry of a tool_batch that is not valid
RECURSIVE ToolEntriesError(_)
ToolEntriesError(entries) ==
    IF entries = <<>> THEN NoError
    ELSE IF Trim(entries[1].tool.s) = <<>> THEN ErrBlankBatchTool
    ELSE IF BadOutputMode(entries[1].output_mode) THEN ErrBadOutputMode
    ELSE ToolEntriesError(Tail(entries))

\* the step type validate works with: the given one, else the inferred one
EffectiveType(a) ==
    IF a.step_type.t = "string" THEN a.step_type
    ELSE InferStepTypeFlat(a.tool, a.tools, a.message, a.question)

\* ControllerAction::validate on a decoded action: its error, NoError when
\* the action passes
ControllerActionValidate(a) ==
    IF a.action # "next_step" THEN NoError
    ELSE LET effective_type == EffectiveType(a)
         IN IF effective_type = NoneValue THEN ErrNoStepType
            ELSE IF effective_type.s = <<"tool">>
            THEN IF ~NonBlank(a.tool) THEN ErrToolRequired
                 ELSE IF BadOutputMode(a.output_mode) THEN ErrBadOutputMode
                 ELSE NoError
            ELSE IF effective_type.s = <<"tool_batch">>
            THEN IF a.tools.t # "array" \/ a.tools.items = <<>> THEN ErrEmptyTools
                 ELSE ToolEntriesError(a.tools.items)
            ELSE IF effective_type.s = <<"respond">>
            THEN IF ~NonBlank(a.message) THEN ErrMessageRequired ELSE NoError
            ELSE IF effective_type.s = <<"ask_user">>
            THEN IF ~NonBlank(a.question) THEN ErrQuestionRequired ELSE NoError
            ELSE ErrUnknownStepType

\* a lookup that returns the text as it is written
RECURSIVE NonEmptyStringFieldUntrimmed(_, _)
NonEmptyStringFieldUntrimmed(root, keys) ==
    IF keys = <<>> THEN NoneValue
    ELSE IF NonBlank(root[keys[1]]) THEN root[keys[1]]
    ELSE NonEmptyStringFieldUntrimmed(root, Tail(keys))

\* non_empty_string_field: the trimmed text of the first of the keys that
\* holds a string which is not blank
RECURSIVE NonEmptyStringField(_, _)
NonEmptyStringField(root, keys) ==
    IF keys = <<>> THEN NoneValue
    ELSE IF NonBlank(root[keys[1]]) THEN Str(Trim(root[keys[1]].s))
    ELSE NonEmptyStringField(root, Tail(keys))

\* parse_controller_action
ParseControllerAction(value) ==
    LET normalized == NormalizeControllerValue(value)
    IN IF Deserializes(normalized)
       THEN LET action == ControllerAction(normalized)
            IN IF ControllerActionValidate(action) = NoError THEN Ok(action)
               ELSE Err(ControllerActionValidate(action))
       ELSE LET msg == NonEmptyStringField(normalized, <<"message", "response">>)
            IN IF /\ normalized["action"].t = "string"
                  /\ normalized["action"].s = <<"respond">>
                  /\ msg # NoneValue
               THEN Ok([action |-> "complete", message |-> msg.s])
               ELSE Err(ErrInvalidOutput)

\* the values an object can give to a key
Actions == {<<"next_step">>, <<"respond">>, <<"complete">>, <<"ask_user">>,
            <<"guardrail_stop">>}
Texts == {<<" ">>, <<"hello">>, <<" ", "hello", " ">>}
ToolEntries ==
    {Object(With(EmptyObject, "name", Str(<<"echo">>))),
     Object(With(EmptyObject, "tool", Str(<<" ">>)))}
Thinkings ==
    {Object(EmptyObject),
     Object(With(With(EmptyObject, "tool", Str(<<"echo">>)), "message", Str(<<"hello">>)))}
NestedSteps ==
    {Object(With(EmptyObject, "tool", Str(<<"echo">>))),
     Object(With(EmptyObject, "message", Str(<<"hello">>)))}
KeyValues(k) ==
    CASE k = "thinking" -> Thinkings
      [] k = "type" -> {Str(<<w>>) : w \in {"tool", "respond", "think"}}
      [] k = "tool" -> {Null, Str(<<" ">>), Str(<<"echo">>)}
      [] k \in {"tool_name", "name"} -> {Str(<<"echo">>)}
      [] k = "tools" -> {Array(<<>>)} \cup {Array(<<e>>) : e \in ToolEntries}
      [] k \in {"tool_calls", "calls"} -> {Array(<<Object(With(EmptyObject, "tool", Str(<<"echo">>)))>>)}
      [] k = "message" -> {Number} \cup {Str(s) : s \in Texts}
      [] k = "response" -> {Str(<<" ">>), Str(<<"answer", " ">>)}
      [] k = "content" -> {Str(<<"content">>)}
      [] k = "question" -> {Str(<<>>), Str(<<"why">>)}
      [] k = "output_mode" -> {Str(<<"auto">>), Str(<<"never">>)}
      [] k = "reason" -> {Str(<<"stop">>)}
      [] k = "step" -> NestedSteps
      [] k = "next_step" -> {Object(With(EmptyObject, "question", Str(<<"why">>)))}

\* the objects that populate exactly the given keys
RECURSIVE ObjectsWith(_)
ObjectsWith(keys) ==
    IF keys = {} THEN {EmptyObject}
    ELSE LET k == CHOOSE key \in keys : TRUE
         IN {With(o, k, v) : o \in ObjectsWith(keys \ {k}), v \in KeyValues(k)}

\* the objects the model can answer with: an action and at most max_keys
\* other keys
ControllerValues(max_keys) ==
    LET populated == {keys \in SUBSET (Keys \ {"action"}) : Cardinality(keys) <= max_keys}
    IN {With(o, "action", Str(a)) : o \in UNION {ObjectsWith(keys) : keys \in populated},
                                    a \in Actions}

DecodeArgs(max_keys) == [fn : {"parse_controller_action"}, value : ControllerValues(max_keys)]

InitDecode == CallInit(DecodeArgs(MaxObjectKeys))

ParseControllerActionCall ==
    /\ arg.fn = "parse_controller_action"
    /\ Return(ParseControllerAction(arg.value))

NextDecode == ParseControllerActionCall

SpecDecode == InitDecode /\ [][NextDecode]_vars

\* ---------------------------------------------------------------------
\* hydrate_tool_args_for_execution: the reference id of an introspection
\* tool call
\* ---------------------------------------------------------------------
MaxStepHistory == 2

\* JSON objects with keys of their own: fields maps each key of the object to
\* its value
Get(v, k) == IF v.t = "object" /\ k \in DOMAIN v.fields THEN v.fields[k] ELSE Absent
Put(v, k, x) == Object((k :> x) @@ v.fields)
NoFields == [k \in {} |-> Absent]
Field(k, x) == Object(k :> x)

\* serde_json::from_str on the texts of the model: the pieces that are the
\* text of a JSON document, and the document each of them is
JsonTexts == {"{\"output_ref\":{\"id\":\"stale\"}}"}
FromStr(s) ==
    LET text == Trim(s)
    IN IF Len(text) = 1 /\ text[1] = "{\"output_ref\":{\"id\":\"stale\"}}"
       THEN Field("output_ref", Field("id", Str(<<"stale">>)))
       ELSE Absent

\* Option<String> of a reference id
NoId == [some |-> FALSE]
SomeId(s) == [some |-> TRUE, id |-> s]

\* normalize_tool_args
NormalizeToolArgs(args) ==
    CASE args.t = "null" -> Object(NoFields)
      [] args.t = "string" ->
            IF Trim(args.s) = <<>> THEN Object(NoFields)
            ELSE LET parsed == FromStr(Trim(args.s))
                 IN IF parsed = Absent THEN Field("input", args)
                    ELSE IF parsed.t = "object" THEN parsed
                    ELSE Field("value", parsed)
      [] OTHER -> args

\* ensure_extract_paths_default
EnsureExtractPathsDefault(args) ==
    LET map == IF args.t = "object" THEN args ELSE Object(NoFields)
        paths == Get(map, "paths")
    IN IF paths.t = "array" /\ paths.items # <<>> THEN map
       ELSE IF paths.t = "string" /\ Trim(paths.s) # <<>>
       THEN Put(map, "paths", Array(<<Str(Trim(paths.s))>>))
       ELSE Put(map, "paths", Array(<<Str(<<"$">>)>>))

\* apply_tool_output_arg_defaults
ApplyToolOutputArgDefaults(tool_name, args) ==
    IF tool_name = <<"tool_outputs", ".", "extract">> THEN EnsureExtractPathsDefault(args)
    ELSE args

\* tool_outputs_tool_supports_id_hydration
ToolOutputsToolSupportsIdHydration(tool_name) ==
    /\ Len(tool_name) = 3
    /\ SubSeq(tool_name, 1, 2) = ToolOutputsPrefix
    /\ tool_name[3] \in {"read", "stats", "extract", "count", "sample"}

\* tool_outputs_tool_supports_conversation_id
ToolOutputsToolSupportsConversationId(tool_name) == tool_name = <<"tool_outputs", ".", "read">>

\* value_has_non_empty_string_field
ValueHasNonEmptyStringField(value, field) ==
    /\ Get(value, field).t = "string"
    /\ Trim(Get(value, field).s) # <<>>

\* is_blank_string_value
IsBlankStringValue(value) == value.t = "string" /\ Trim(value.s) = <<>>

\* extract_tool_output_ref_id_from_value: the "output_ref"."id" of the value
\* if it is a non-blank string, else the first reference found inside its
\* members, the text of a string being parsed as JSON. (No value of the model
\* holds references in two members.)
RECURSIVE ExtractToolOutputRefIdFromValue(_)
ExtractToolOutputRefIdFromValue(value) ==
    LET Found(vs) == {ExtractToolOutputRefIdFromValue(v) : v \in vs} \ {NoId}
        First(vs) == IF Found(vs) = {} THEN NoId ELSE CHOOSE r \in Found(vs) : TRUE
    IN CASE value.t = "object" ->
              IF ValueHasNonEmptyStringField(Get(value, "output_ref"), "id")
              THEN SomeId(Trim(Get(Get(value, "output_ref"), "id").s))
              ELSE First({value.fields[k] : k \in DOMAIN value.fields})
         [] value.t = "array" -> First({value.items[i] : i \in DOMAIN value.items})
         [] value.t = "string" ->
              IF FromStr(value.s) = Absent THEN NoId
              ELSE ExtractToolOutputRefIdFromValue(FromStr(value.s))
         [] OTHER -> NoId

\* a StepResult: success and output (Absent when the step has none)
StepResultOf(success, output) == [success |-> success, output |-> output]

\* step_result_output_ref_id
StepResultOutputRefId(result) ==
    IF result.output = Absent THEN NoId ELSE ExtractToolOutputRefIdFromValue(result.output)

\* history.iter().rev().find_map(step_result_output_ref_id)
RECURSIVE FindNewestOutputRefId(_)
FindNewestOutputRefId(history) ==
    IF history = <<>> THEN NoId
    ELSE IF StepResultOutputRefId(history[Len(history)]) # NoId
    THEN StepResultOutputRefId(history[Len(history)])
    ELSE FindNewestOutputRefId(SubSeq(history, 1, Len(history) - 1))

\* hydrate_tool_args_for_execution; last_step_result is Absent for None
HydrateToolArgsForExecution(tool_name, args, conversation_id, last_step_result, history) ==
    IF ~StartsWith(tool_name, ToolOutputsPrefix) THEN args
    ELSE LET normalized == ApplyToolOutputArgDefaults(tool_name, NormalizeToolArgs(args))
             from_last == IF last_step_result = Absent THEN NoId
                          ELSE StepResultOutputRefId(last_step_result)
             output_id == IF from_last # NoId THEN from_last
                          ELSE FindNewestOutputRefId(history)
             with_id == Put(IF normalized.t = "object" THEN normalized ELSE Object(NoFields),
                            "id", Str(output_id.id))
             conversation_missing_or_blank ==
                 \/ normalized.t # "object"
                 \/ Get(normalized, "conversation_id") = Absent
                 \/ IsBlankStringValue(Get(normalized, "conversation_id"))
             hydrated == IF /\ ToolOutputsToolSupportsConversationId(tool_name)
                            /\ conversation_missing_or_blank
                         THEN Put(with_id, "conversation_id", Str(conversation_id))
                         ELSE with_id
         IN IF \/ ~ToolOutputsToolSupportsIdHydration(tool_name)
               \/ ValueHasNonEmptyStringField(normalized, "id")
            THEN normalized
            ELSE IF output_id = NoId THEN normalized
            ELSE ApplyToolOutputArgDefaults(tool_name, hydrated)

\* the StepResults of the model: a persisted output, an inline output without
\* a reference, a reference nested in the output, the reply of a respond
\* step, a step without output, a failed call with a plain error text, a
\* failed call whose error text is a JSON document that names a stored
\* output, and a batch whose summary names the reference as a string
PersistedOutput(id) ==
    Object(("persisted" :> [t |-> "bool"]) @@ ("output_ref" :> Field("id", Str(id))))
FailedOutput(text) == Object(("message" :> Str(text)) @@ ("success" :> [t |-> "bool"]))
StepResults ==
    {StepResultOf(TRUE, PersistedOutput(<<"fresh">>)),
     StepResultOf(TRUE, Field("value", Str(<<"plain">>))),
     StepResultOf(TRUE, Field("result", Field("output_ref", Field("id", Str(<<" ", "nested">>))))),
     StepResultOf(TRUE, Field("message", Str(<<"reply">>))),
     StepResultOf(FALSE, Absent),
     StepResultOf(FALSE, FailedOutput(<<"tool failed">>)),
     StepResultOf(FALSE, FailedOutput(<<"{\"output_ref\":{\"id\":\"stale\"}}">>)),
     StepResultOf(FALSE, Field("results", Array(<<Field("output_ref", Str(<<"fresh">>))>>)))}

HydrationTools ==
    {<<"tool_outputs", ".", "read">>, <<"tool_outputs", ".", "extract">>,
     <<"tool_outputs", ".", "list">>, <<"gmail", ".", "read">>}

HydrationToolArgs ==
    {Null, Number, Object(NoFields), Field("id", Str(<<" ">>)), Field("id", Str(<<"explicit">>)),
     Field("conversation_id", Str(<<"other">>))}

HydrateArgs(max_history) ==
    [fn : {"hydrate_tool_args_for_execution"}, tool_name : HydrationTools,
     args : HydrationToolArgs, conversation_id : {<<"conversation-1">>},
     last_step_result : StepResults \cup {Absent},
     history : SeqsOf(StepResults, 0, max_history)]

InitHydrate == CallInit(HydrateArgs(MaxStepHistory))

HydrateToolArgsForExecutionCall ==
    /\ arg.fn = "hydrate_tool_args_for_execution"
    /\ Return(HydrateToolArgsForExecution(arg.tool_name, arg.args, arg.conversation_id,
                                          arg.last_step_result, arg.history))

NextHydrate == HydrateToolArgsForExecutionCall

SpecHydrate == InitHydrate /\ [][NextHydrate]_vars

\* ---------------------------------------------------------------------
\* Properties
\* ---------------------------------------------------------------------
RecordsOf(result) ==
    IF result.kind = "step"
    THEN {result.tool_executions[i] : i \in DOMAIN result.tool_executions}
    ELSE {}

\* every ToolExecutionRecord the controller holds
LiveRecords ==
    UNION {RecordsOf(step_results[i]) : i \in DOMAIN step_results}
    \cup RecordsOf(step.result)
    \cup RecordsOf(call.result)
    \cup {agg.aggregated_tool_executions[i] : i \in DOMAIN agg.aggregated_tool_executions}

DenialReason(cause) ==
    CASE cause = "approver" -> DeniedByApproval
      [] cause = "timeout" -> ApprovalTimedOut
      [] cause = "cancellation" -> ToolCancelled

\* C1: a handler of a tool whose approval requirement resolves to true is
\* invoked only after the approval request of that execution was resolved
\* Approved; an execution that was denied (by the approver, by the approval
\* timeout or by cancellation) is never invoked and its record is failed with
\* the denial reason as error. Single-tool steps and batches alike.
C1_ApprovalGate ==
    /\ \A v \in invoked :
          ResolveRequiresApproval(v.tool) =>
              \E j \in DOMAIN events : events[j] = Event("approved", v.execution_id)
    /\ \A j \in DOMAIN events :
          events[j].type = "denied" =>
              /\ \A v \in invoked : v.execution_id # events[j].execution_id
              /\ \E r \in LiveRecords :
                    /\ r.execution_id = events[j].execution_id
                    /\ ~r.success
                    /\ r.error = DenialReason(events[j].cause)

C1_Witness ==
    /\ step.mode = "sequential"
    /\ \E j \in DOMAIN events : events[j].type = "denied"
    /\ \E v \in invoked :
          /\ v.step = Len(plan.steps)
          /\ ResolveRequiresApproval(v.tool)

\* the run has ended and the cancellation was requested in one of the
\* situations named by the cancellation contract
WaitPoints == {"approval_wait", "tool_wait", "batch_wait"}
CancelledInProgress == cancel_flag /\ cancel_at \in WaitPoints \cup {"between_turns"}

C3_DenialEndsRun ==
    (\E j \in DOMAIN events : events[j].type = "denied") =>
        /\ pc # "llm"
        /\ (pc = "done" /\ run_result.kind = "Ok") => run_result = Ok(NonApprovalMessage)

C5_QuotaAlwaysExceededError ==
    [][(pc = "loop_top" /\ pc' # pc /\ turns >= config.max_total_llm_turns)
           => run_result' = Err(ErrMaxTurns)]_vars

\* C5 (amended): the model is called at most max_total_llm_turns times; when
\* the loop is entered with the quota used up the model is not called again
\* and run() returns Err("Exceeded maximum LLM turns"), unless cancellation
\* has been requested, which is checked first and returns Err("Cancelled").
C5_TurnQuota ==
    [][/\ llm_calls' <= config.max_total_llm_turns
       /\ (pc = "loop_top" /\ pc' # pc /\ turns >= config.max_total_llm_turns) =>
             /\ llm_calls' = llm_calls
             /\ pc' = "done"
             /\ run_result' = IF cancel_flag THEN Err(ErrCancelled) ELSE Err(ErrMaxTurns)]_vars

C5_Witness ==
    /\ pc = "done"
    /\ run_result = Err(ErrMaxTurns)
    /\ config.max_total_llm_turns >= 1
    /\ llm_calls = config.max_total_llm_turns

\* the model proposed one call of a registered tool with valid args that
\* needs no approval, then complete
ToolThenComplete ==
    /\ Len(decided) = 2
    /\ decided[1].action = "next_step" /\ decided[1].type = "tool"
    /\ PreflightError(decided[1].calls[1]) = NoError
    /\ ~ResolveRequiresApproval(decided[1].calls[1].tool)
    /\ decided[2].action = "complete"

\* C6: in a run where the model proposes one tool call (registered, valid
\* args, no approval) and then complete, run() returns the completion message
\* and there is exactly one ToolExecutionRecord: one in the step results and
\* one entry for take_tool_executions.
C6_ToolThenComplete ==
    (pc = "done" /\ ToolThenComplete) =>
        /\ run_result = Ok(decided[2].message)
        /\ Len(step_results) = 1
        /\ Len(step_results[1].tool_executions) = 1
        /\ step_results[1].tool_executions[1].tool_name = decided[1].calls[1].tool
        /\ Len(pending_tool_executions) = 1
        /\ pending_tool_executions[1].id = step_results[1].tool_executions[1].execution_id

C6_Witness ==
    /\ pc = "done"
    /\ ToolThenComplete
    /\ step_results[1].success
    /\ \E v \in invoked : v.execution_id = pending_tool_executions[1].id

\* a batch step has returned its result and was given capacity c for k calls
BatchReturned(c, k) ==
    /\ pc = "record_step"
    /\ step.type = "tool_batch"
    /\ step.remaining_capacity = c
    /\ step.requested_calls = k

\* the result of the batch step is that of the first c of the k requested
\* calls, with the three counters
ClampedBatchReport(c, k) ==
    LET n == Len(plan.steps)
        requested == plan.steps[n].action.calls
        recs == step.result.tool_executions
        output == step.result.output
    IN /\ Len(recs) = c
       /\ {recs[i].call : i \in DOMAIN recs} = 1..c
       /\ \A i \in DOMAIN recs : recs[i].tool_name = requested[recs[i].call].tool
       /\ \A i, j \in DOMAIN recs :
             recs[i].call < recs[j].call => recs[i].execution_id < recs[j].execution_id
       /\ \A v \in invoked : v.step = n => v.call <= c /\ v.tool = requested[v.call].tool
       /\ "executed_calls" \in DOMAIN output
       /\ "dropped_calls" \in DOMAIN output
       /\ output.requested_calls = k
       /\ output.executed_calls = c
       /\ output.dropped_calls = k - c

\* C7: for a batch of k >= 1 calls and a remaining capacity c with
\* 0 <= c < k, exactly the first c calls are executed in their original
\* order, the last k - c calls are not executed, and the step result reports
\* requested_calls = k, executed_calls = c, dropped_calls = k - c.
C7_ClampedBatch ==
    \A k \in 1..MaxBatchLen : \A c \in 0..(k - 1) :
        BatchReturned(c, k) => ClampedBatchReport(c, k)

\* the result of a parallel batch is ready to be recorded
ParallelResultReady == pc = "record_step" /\ step.mode = "parallel"

\* the record of each runnable call of the batch, from the call and its own
\* outcome alone, in call order
ExpectedRunRecords ==
    [i \in 1..Len(agg.runnable_calls) |->
        ToolExecutionRecord(agg.runnable_calls[i].execution_id, agg.runnable_calls[i].call,
                            agg.runnable_calls[i].tool_name, workers[i].outcome = "ok",
                            OutcomeError(workers[i].outcome), agg.runnable_calls[i].iteration)]

FirstError(recs) ==
    IF \A i \in DOMAIN recs : recs[i].success THEN NoError
    ELSE recs[CHOOSE i \in DOMAIN recs :
                 ~recs[i].success /\ \A j \in 1..(i - 1) : recs[j].success].error

LastOf(seq, n) == SubSeq(seq, Len(seq) - n + 1, Len(seq))

\* C8: the aggregated result of a parallel batch is a function of the batch
\* and of the per-call outcomes only, whatever the order in which the workers
\* finished: the records (preflight failures in call order, then the run
\* calls in call order), the per-call summaries, the success and failure
\* counts, the step error and the order of the completion events.
C8_FinishOrderIndependent ==
    ParallelResultReady =>
        LET n == Len(agg.runnable_calls)
            recs == step.result.tool_executions
            p == Len(recs) - n
            ok == Cardinality({w \in DOMAIN workers : workers[w].outcome = "ok"})
        IN /\ p >= 0
           /\ LastOf(recs, n) = ExpectedRunRecords
           /\ \A i \in 1..p :
                 /\ recs[i].error = PreflightError(step.calls[recs[i].call])
                 /\ recs[i].error # NoError
                 /\ \A j \in 1..(i - 1) : recs[j].call < recs[i].call
           /\ agg.results_summary = recs
           /\ step.result.output.successful_calls = ok
           /\ step.result.output.failed_calls = Len(recs) - ok
           /\ step.result.error = FirstError(recs)
           /\ step.result.success = (FirstError(recs) = NoError)
           /\ LastOf(events, n) =
                  [i \in 1..n |-> Event("completed", agg.runnable_calls[i].execution_id)]
           /\ LastOf(pending_tool_executions, n) =
                  [i \in 1..n |-> PendingInput(ExpectedRunRecords[i])]

C8_Witness ==
    /\ ParallelResultReady
    /\ finish_order = <<2, 1>>
    /\ workers[1].outcome = "ok"
    /\ workers[2].outcome = "tool_error"

\* C9: a panic in one call of a parallel batch stays in that call: while the
\* workers of the batch exist run() has not failed, every worker hands a
\* result to the join, and the one aggregated StepResult of the batch holds
\* one record per call, a failed one with "Tool execution panicked" for the
\* call that panicked and for every other call the record of its own outcome.
C9_PanicConfined ==
    /\ (step.mode = "parallel" /\ workers # <<>>) => run_result = NoRun
    /\ ParallelResultReady =>
          /\ step.result.kind = "step"
          /\ Len(step.result.tool_executions) = Len(step.calls)
          /\ \A w \in DOMAIN workers :
                /\ workers[w].state = "finished"
                /\ \E r \in RecordsOf(step.result) :
                      /\ r.execution_id = agg.runnable_calls[w].execution_id
                      /\ r.success = (workers[w].outcome = "ok")
                      /\ r.error = OutcomeError(workers[w].outcome)
                      /\ workers[w].outcome = "panic" => r.error = ToolPanicked

C9_Witness ==
    /\ ParallelResultReady
    /\ \E w, v \in DOMAIN workers :
          /\ workers[w].outcome = "panic"
          /\ workers[v].outcome = "ok"
          /\ \E i, j \in DOMAIN step.result.tool_executions :
                /\ step.result.tool_executions[i].error = ToolPanicked
                /\ step.result.tool_executions[j].success

\* C10: a parallel batch has a result only when every worker has finished,
\* and every call that passed preflight had its handler invoked and has its
\* own record in the result, whatever happened to the other calls.
C10_NoFailFast ==
    (step.mode = "parallel" /\ step.result # NoResult) =>
        /\ Len(workers) = Len(agg.runnable_calls)
        /\ \A w \in 1..Len(agg.runnable_calls) :
              /\ workers[w].state = "finished"
              /\ \E v \in invoked : v.execution_id = agg.runnable_calls[w].execution_id
              /\ Cardinality({i \in DOMAIN step.result.tool_executions :
                                 step.result.tool_executions[i].execution_id =
                                     agg.runnable_calls[w].execution_id}) = 1

C10_Witness ==
    /\ ParallelResultReady
    /\ Len(finish_order) = 2
    /\ workers[finish_order[1]].outcome \in {"tool_error", "timeout"}
    /\ workers[finish_order[2]].outcome = "ok"
    /\ step.result.output.successful_calls = 1

\* C11: a batch is executed sequentially exactly when one of its calls left
\* after clamping names a registered tool whose approval requirement resolves
\* to true, and a sequential batch runs its calls one at a time in call
\* order: the records are those of calls 1, 2, ... in that order, the call in
\* progress is the one after the last record, no handler of a later call has
\* been invoked, and every event of a call (proposal, approval, start,
\* completion) comes after the completion or denial event of every earlier
\* call of the batch.
C11_SequentialInCallOrder ==
    /\ (step.type = "tool_batch" /\ step.mode # "none") =>
          ((step.mode = "sequential") <=>
              \E i \in DOMAIN step.calls :
                  /\ step.calls[i].tool \in RegisteredTools
                  /\ ResolveRequiresApproval(step.calls[i].tool))
    /\ step.mode = "sequential" =>
          LET recs == agg.aggregated_tool_executions
              m == Len(recs)
          IN /\ \A j \in 1..m : recs[j].call = j
             /\ \A j \in 1..(m - 1) : recs[j].execution_id < recs[j + 1].execution_id
             /\ step.idx \in {m, m + 1}
             /\ call # NoCall =>
                   /\ step.idx = m + 1
                   /\ \A j \in 1..m : recs[j].execution_id < call.execution_id
             /\ \A v \in invoked :
                   v.step = Len(plan.steps) =>
                       /\ v.call <= m + 1
                       /\ v.call = m + 1 => v.execution_id = call.execution_id
             /\ \A j \in 1..m : \A q \in DOMAIN events :
                   events[q].execution_id > recs[j].execution_id =>
                       \E q0 \in 1..(q - 1) :
                           /\ events[q0].execution_id = recs[j].execution_id
                           /\ events[q0].type \in {"completed", "denied"}

C11_Witness ==
    /\ step.mode = "sequential"
    /\ pc = "record_step"
    /\ Len(agg.aggregated_tool_executions) = 2
    /\ \E v \in invoked : v.step = Len(plan.steps) /\ v.call = 1
    /\ \E v \in invoked :
          /\ v.step = Len(plan.steps) /\ v.call = 2
          /\ \E q \in DOMAIN events : events[q] = Event("proposed", v.execution_id)

\* step i of the plan is a single-tool step that names an unknown tool or
\* passes args that do not fit the schema of the tool
BadSingleToolStep(i) ==
    /\ plan.steps[i].action.type = "tool"
    /\ LET spec == plan.steps[i].action.calls[1]
       IN spec.tool \notin RegisteredTools \/ ~spec.args_ok

\* no handler was invoked for step i
NoHandlerInvoked(i) == \A v \in invoked : v.step # i

\* step i ends in a failed StepResult with one failed record and the run
\* goes on: back in phase Controller the loop asks the model again, unless
\* the cancellation or turn-quota check of the loop ends the run first
FailsWithoutAbort(i) ==
    IF i > Len(step_results)
    THEN /\ pc \in {"tool_begin", "call_return", "record_step"}
         /\ run_result = NoRun
    ELSE /\ ~step_results[i].success
         /\ step_results[i].error \in {ErrUnknownTool, ErrInvalidArgs}
         /\ Len(step_results[i].tool_executions) = 1
         /\ ~step_results[i].tool_executions[1].success
         /\ step_results[i].tool_executions[1].error = step_results[i].error
         /\ plan.steps[i].status = "Failed"
         /\ \/ Len(decided) > i
            \/ pc \in {"loop_top", "llm"} /\ phase = "Controller" /\ run_result = NoRun
            \/ pc = "done" /\ run_result \in {Err(ErrCancelled), Err(ErrMaxTurns)}

\* C12 (as stated): every single-tool step that names an unknown tool or
\* passes schema-invalid args invokes no handler, produces a failed StepResult
\* with one failed record, and does not abort the run.
C12_PreflightNonFatal ==
    \A i \in DOMAIN plan.steps :
        BadSingleToolStep(i) => NoHandlerInvoked(i) /\ FailsWithoutAbort(i)

\* C12 (amended): a single-tool step that names an unknown tool or passes
\* schema-invalid args never invokes a handler; when the per-step tool-call
\* quota allows a call (max_tool_calls_per_step >= 1) it produces a failed
\* StepResult with one failed record and the run goes on with phase
\* Controller and the next turn of the loop.
C12_PreflightNonFatalWithinQuota ==
    \A i \in DOMAIN plan.steps :
        BadSingleToolStep(i) =>
            /\ NoHandlerInvoked(i)
            /\ config.max_tool_calls_per_step >= 1 => FailsWithoutAbort(i)

C12_Witness ==
    /\ pc = "llm"
    /\ phase = "Controller"
    /\ Len(step_results) = 1
    /\ BadSingleToolStep(1)
    /\ step_results[1].error = ErrInvalidArgs
    /\ \E q \in DOMAIN events :
          events[q] = Event("completed", step_results[1].tool_executions[1].execution_id)

\* the i-th decision of the model is a tool_batch step with an empty tools list
EmptyBatchDecision(i) ==
    /\ decided[i].action = "next_step"
    /\ decided[i].type = "tool_batch"
    /\ decided[i].calls = <<>>

\* C13: a tool_batch decision whose tools list is empty becomes a step whose
\* StepResult is failed and holds no tool records, and the run goes on to the
\* next turn instead of returning an error for that decision.
C13_EmptyBatchNonFatal ==
    \A i \in DOMAIN decided :
        EmptyBatchDecision(i) =>
            IF i > Len(step_results)
            THEN /\ pc \in {"batch_begin", "record_step"}
                 /\ run_result = NoRun
            ELSE /\ ~step_results[i].success
                 /\ step_results[i].tool_executions = <<>>
                 /\ \/ Len(decided) > i
                    \/ pc \in {"loop_top", "llm"} /\ phase = "Controller" /\ run_result = NoRun
                    \/ pc = "done" /\ run_result \in {Err(ErrCancelled), Err(ErrMaxTurns)}

TerminalPhases == {"Complete", "GuardrailStop"}

\* the approval requests made so far
ApprovalRequests == SelectSeq(events, LAMBDA e : e.type = "proposed")

\* C14: Complete and GuardrailStop are terminal: from a state whose phase is
\* Complete or GuardrailStop no step changes the phase, calls the model,
\* invokes a tool handler or makes an approval request.
C14_TerminalPhases ==
    [][(phase \in TerminalPhases) =>
          (/\ phase' = phase
           /\ llm_calls' = llm_calls
           /\ decided' = decided
           /\ invoked' = invoked
           /\ ApprovalRequests' = ApprovalRequests)]_vars

C14_Witness ==
    /\ phase = "GuardrailStop"
    /\ pc = "done"
    /\ run_result = Err("guardrail")
    /\ invoked # {}
    /\ ApprovalRequests # <<>>

\* what a plan step is, apart from its status and its result
StepIdentity(ps) == [sequence |-> ps.sequence, action |-> ps.action]

\* the step taken is a next_step decision that passed validation
NextStepDecided ==
    /\ decided' # decided
    /\ decided'[Len(decided')].action = "next_step"
    /\ Validate(decided'[Len(decided')]) = NoError

\* C15: the plan is created once, on the first next_step decision, and never
\* replaced: it keeps its id, its steps are never removed or changed in what
\* they are, exactly one step is appended by every next_step decision and
\* none by any other step, and the step at (0-based) index i has sequence
\* number i.
C15_PlanAppendOnly ==
    [][/\ plan.exists => (plan'.exists /\ plan'.id = plan.id)
       /\ plan'.exists # plan.exists => (NextStepDecided /\ decided = <<>>)
       /\ Len(plan'.steps) = Len(plan.steps) + (IF NextStepDecided THEN 1 ELSE 0)
       /\ \A i \in DOMAIN plan.steps :
             StepIdentity(plan'.steps[i]) = StepIdentity(plan.steps[i])
       /\ \A i \in DOMAIN plan'.steps : plan'.steps[i].sequence = i - 1]_vars

C15_Witness ==
    /\ plan.exists
    /\ Len(plan.steps) = 2
    /\ plan.steps[1].has_result
    /\ plan.steps[2].has_result
    /\ plan.steps[2].sequence = 1

\* the place of a status in the lifecycle Proposed -> Executing -> Completed|Failed
StatusRank(status) ==
    CASE status = "Proposed" -> 0
      [] status = "Executing" -> 1
      [] status \in {"Completed", "Failed"} -> 2

\* C16: the status of a plan step, in the session and in the database, only
\* moves forward along Proposed -> Executing -> Completed|Failed; a step that
\* has its result never changes again; and a step is dispatched once: every
\* dispatch is for a step appended by that very decision, and the step in
\* execution is always the last step of the plan, the only one without a
\* result.
C16_StatusForwardOnly ==
    [][/\ \A i \in DOMAIN plan.steps :
             /\ StatusRank(plan'.steps[i].status) >= StatusRank(plan.steps[i].status)
             /\ StatusRank(plan'.steps[i].db_status) >= StatusRank(plan.steps[i].db_status)
             /\ plan.steps[i].has_result => plan'.steps[i] = plan.steps[i]
       /\ (step = NoStep /\ step' # NoStep) =>
             /\ Len(plan'.steps) = Len(plan.steps) + 1
             /\ plan'.steps[Len(plan'.steps)].status = "Proposed"
       /\ step' # NoStep =>
             \A i \in DOMAIN plan'.steps :
                 plan'.steps[i].has_result <=> i < Len(plan'.steps)]_vars

C16_Witness ==
    /\ Len(plan.steps) = 2
    /\ plan.steps[1].status = "Failed"
    /\ plan.steps[1].db_status = "Failed"
    /\ plan.steps[2].status = "Completed"
    /\ plan.steps[2].db_status = "Completed"

\* C17: the failure of a database write made while a run is in progress is
\* swallowed where it happens: run() never returns the error of the write.
C17_WriteFailureSwallowed == run_result # Err(ErrDatabase)

\* the name lies in the namespace tool_outputs.*
InOutputAccessNamespace(name) ==
    /\ Len(name) >= 2
    /\ name[1] = "tool_outputs"
    /\ name[2] = "."

\* C18: for a tool whose name lies in the output-access namespace
\* (tool_outputs.*) the resolved delivery mode is Inline and forced_persist is
\* false, whatever the requested mode, the result policy of the tool and the
\* size of the result.
C18_OutputAccessStaysInline ==
    (Returned("resolve_output_delivery") /\ InOutputAccessNamespace(arg.tool_name)) =>
        /\ ret.value.resolved_output_mode = "Inline"
        /\ ret.value.forced_persist = FALSE

C18_Witness ==
    /\ Returned("resolve_output_delivery")
    /\ arg.tool_name = <<"tool_outputs", ".", "read">>
    /\ arg.requested_output_mode = "Persist"
    /\ arg.result_mode = "Persist"
    /\ arg.output_chars > 16384
    /\ ret.value.resolved_output_mode = "Inline"

\* the decision table of the resolver, as (mode, forced, reason)
DeliveryTable(requested, policy, size) ==
    CASE requested = "Persist" -> <<"Persist", FALSE, "none">>
      [] requested = "Inline" /\ size > 16384 ->
            <<"Persist", TRUE, "inline_size_exceeds_hard_limit">>
      [] requested = "Inline" /\ size <= 16384 -> <<"Inline", FALSE, "none">>
      [] requested = "Auto" /\ policy = "Inline" /\ size > 16384 ->
            <<"Persist", TRUE, "inline_size_exceeds_hard_limit">>
      [] requested = "Auto" /\ policy = "Inline" /\ size <= 16384 -> <<"Inline", FALSE, "none">>
      [] requested = "Auto" /\ policy = "Persist" -> <<"Persist", FALSE, "none">>
      [] requested = "Auto" /\ policy = "Auto" /\ size > 4096 -> <<"Persist", FALSE, "none">>
      [] requested = "Auto" /\ policy = "Auto" /\ size <= 4096 -> <<"Inline", FALSE, "none">>

\* C19: for a tool outside the output-access namespace the resolver equals
\* the decision table for every result size: requested Persist -> Persist,
\* not forced; requested Inline -> Inline, but Persist, forced, with reason
\* "inline_size_exceeds_hard_limit" above 16384 chars; requested Auto -> by
\* the policy of the tool: Inline persists (forced) only above 16384 chars,
\* Persist always persists (not forced), Auto persists (not forced) exactly
\* above 4096 chars.
C19_DeliveryTable ==
    (Returned("resolve_output_delivery") /\ ~InOutputAccessNamespace(arg.tool_name)) =>
        <<ret.value.resolved_output_mode, ret.value.forced_persist, ret.value.forced_reason>>
            = DeliveryTable(arg.requested_output_mode, arg.result_mode, arg.output_chars)

C19_Witness ==
    /\ Returned("resolve_output_delivery")
    /\ arg.tool_name = <<"gmail", ".", "read">>
    /\ arg.requested_output_mode = "Auto"
    /\ arg.result_mode = "Auto"
    /\ arg.output_chars = 4097
    /\ ret.value.resolved_output_mode = "Persist"
    /\ ~ret.value.forced_persist

\* the sum of the sizes of the messages at the given positions
RECURSIVE SizeOfFirst(_, _)
SizeOfFirst(messages, n) ==
    IF n = 0 THEN 0 ELSE SizeOfFirst(messages, n - 1) + messages[n].chars

\* C20: history compaction with (max chars, prefix count p, tail count t): a
\* history whose total size is at most max chars is returned as it is; a
\* larger one whose prefix and tail windows do not overlap (p + t is at most
\* the number of messages) becomes exactly its first p messages followed by
\* its last t messages, verbatim, in order and with nothing inserted; a
\* larger one whose windows overlap or exceed the history is returned as it
\* is.
C20_CompactionKeepsPrefixAndTail ==
    Returned("compact_history_messages_with_limits") =>
        LET messages == arg.messages
            n == Len(messages)
            p == arg.stable_prefix_messages
            t == arg.recent_tail_messages
            out == ret.value
        IN IF SizeOfFirst(messages, n) <= arg.max_chars THEN out = messages
           ELSE IF p + t <= n
           THEN /\ Len(out) = p + t
                /\ \A i \in 1..p : out[i] = messages[i]
                /\ \A i \in 1..t : out[p + i] = messages[n - t + i]
           ELSE out = messages

C20_Witness ==
    /\ Returned("compact_history_messages_with_limits")
    /\ Len(arg.messages) = MaxHistoryLen
    /\ arg.stable_prefix_messages = 1
    /\ arg.recent_tail_messages = 2
    /\ Len(ret.value) = 3
    /\ ret.value[2] = arg.messages[MaxHistoryLen - 1]

\* C21: for every non-empty history and every choice of max chars, prefix
\* count and tail count, the compacted history contains the first and the
\* last message of the original history.
C21_CompactionKeepsFirstAndLast ==
    (Returned("compact_history_messages_with_limits") /\ arg.messages # <<>>) =>
        /\ \E i \in DOMAIN ret.value : ret.value[i] = arg.messages[1]
        /\ \E i \in DOMAIN ret.value : ret.value[i] = arg.messages[Len(arg.messages)]

\* the populated step fields of a decoded object, after the decoder's alias
\* normalisation: a non-empty tools list, or a tool, question or message that
\* is a non-blank string
PopulatesStepField(o) ==
    \/ o["tools"].t = "array" /\ o["tools"].items # <<>>
    \/ \E k \in {"tool", "question", "message"} :
           o[k].t = "string" /\ Trim(o[k].s) # <<>>

ThinkingOnly(value) ==
    /\ value["action"] = Str(<<"next_step">>)
    /\ NormalizeControllerValue(value)["type"] = Absent
    /\ ~PopulatesStepField(NormalizeControllerValue(value))

\* C22: decoding a next_step object that gives no type and populates none of
\* tools (non-empty), tool, question, message (non-blank) fails, whatever its
\* thinking holds: no step is produced from thinking alone.
C22_NoStepFromThinking ==
    (Returned("parse_controller_action") /\ ThinkingOnly(arg.value)) =>
        ret.value.kind = "Err"

\* a next_step whose thinking names a tool and a message, with a blank
\* question beside it, is rejected for want of a step type
C22_Witness ==
    /\ Returned("parse_controller_action")
    /\ ThinkingOnly(arg.value)
    /\ arg.value["thinking"].t = "object"
    /\ arg.value["thinking"].fields["tool"] = Str(<<"echo">>)
    /\ arg.value["question"] = Str(<<>>)
    /\ ret.value = Err(ErrNoStepType)

IsText(v) == v.t = "string" /\ Trim(v.s) # <<>>
LegacyRespond(value) == value["action"] = Str(<<"respond">>)
CompleteWith(text) == Ok([action |-> "complete", message |-> text])

\* C23 as stated: an object whose action is "respond" decodes to
\* Complete{message: X} when it carries a non-blank message or response X,
\* and fails when it has neither or both are blank.
C23_RespondIsComplete ==
    (Returned("parse_controller_action") /\ LegacyRespond(arg.value)) =>
        LET message == arg.value["message"]
            response == arg.value["response"]
        IN IF IsText(message) THEN ret.value = CompleteWith(message.s)
           ELSE IF IsText(response) THEN ret.value = CompleteWith(response.s)
           ELSE ret.value.kind = "Err"

\* C23, amended: an object whose action is "respond" decodes to
\* Complete{message: trim(X)}, X being the message when that is a non-blank
\* string and else the response when that is one, both taken after alias
\* normalisation (an absent message is filled from a nested step object,
\* then from response, then from content); it fails when neither is a
\* non-blank string.
C23_RespondIsCompleteTrimmed ==
    (Returned("parse_controller_action") /\ LegacyRespond(arg.value)) =>
        LET normalized == NormalizeControllerValue(arg.value)
            message == normalized["message"]
            response == normalized["response"]
        IN /\ IF IsText(message) THEN ret.value = CompleteWith(Trim(message.s))
              ELSE IF IsText(response) THEN ret.value = CompleteWith(Trim(response.s))
              ELSE ret.value = Err(ErrInvalidOutput)
           /\ IsText(arg.value["message"]) =>
                  ret.value = CompleteWith(Trim(arg.value["message"].s))
           /\ (arg.value["message"] = Absent /\ arg.value["step"] = Absent
                  /\ arg.value["next_step"] = Absent /\ IsText(arg.value["response"])) =>
                  ret.value = CompleteWith(Trim(arg.value["response"].s))

\* a padded message comes back trimmed
C23_Witness ==
    /\ Returned("parse_controller_action")
    /\ LegacyRespond(arg.value)
    /\ arg.value["message"] = Str(<<" ", "hello", " ">>)
    /\ ret.value = CompleteWith(<<"hello">>)

\* the handler invocations made for step i
InvokedInStep(i) == {v \in invoked : v.step = i}

\* execute_tool is running for a call (of a single-tool step or of a
\* sequential batch) that has passed the quota check and was not invoked yet
PastQuotaCheck == pc \in {"approval_check", "approval_recv", "pre_invoke"}

\* execute_tool found the quota of the step used up
QuotaRefused == pc = "done" /\ run_result = Err(ErrToolLimit)

C24_WitnessRefused ==
    /\ QuotaRefused
    /\ step.type = "tool"
    /\ invoked = {}

\* the handler returned a value and storing it in the tool output store failed
StoreFailed ==
    /\ Returned("classify_tool_result")
    /\ arg.execution_result.kind = "Ok"
    /\ ~StartsWith(arg.tool_name, ToolOutputsPrefix)
    /\ ~arg.store_ok

\* C26: when the tool succeeds and storing its result fails, the call is
\* failed (success=false, error "Failed to persist tool output") exactly when
\* the resolved delivery mode is Persist; when it is Inline the call stays
\* successful with the full result and the failure is only a warning.
C26_PersistFailureDowngrade ==
    StoreFailed =>
        /\ ret.value.output_delivery =
               ResolveOutputDelivery(arg.tool_name, arg.requested_output_mode,
                                     arg.result_mode, arg.execution_result.output_chars)
        /\ ~ret.value.success <=> ret.value.output_delivery.resolved_output_mode = "Persist"
        /\ ret.value.output_delivery.resolved_output_mode = "Persist" =>
               /\ ret.value.error = ErrPersistFailed
               /\ ret.value.output = "error_message"
               /\ ret.value.artifact_persist_warning = NoWarning
        /\ ret.value.output_delivery.resolved_output_mode = "Inline" =>
               /\ ret.value.success
               /\ ret.value.error = NoError
               /\ ret.value.output = "output_value"
               /\ ret.value.artifact_persist_warning = ErrPersistFailed

\* a small result asked to be persisted whose store fails, and the call failed
C26_Witness ==
    /\ StoreFailed
    /\ arg.requested_output_mode = "Persist"
    /\ arg.execution_result.output_chars = 1
    /\ ~ret.value.success
    /\ ret.value.error = ErrPersistFailed

\* a result delivered inline whose store fails, and the call still successful
C26_WitnessInline ==
    /\ StoreFailed
    /\ ret.value.success
    /\ ret.value.artifact_persist_warning = ErrPersistFailed

\* the execution ids of the records of a list of step results, in order
RECURSIVE RecordIds(_)
RecordIds(results) ==
    IF results = <<>> THEN <<>>
    ELSE [i \in DOMAIN results[1].tool_executions |->
             results[1].tool_executions[i].execution_id] \o RecordIds(Tail(results))

\* the ids of the pending-persistence queue, in order
PendingIds == [i \in DOMAIN pending_tool_executions |-> pending_tool_executions[i].id]

IsPrefix(s, t) == Len(s) <= Len(t) /\ SubSeq(t, 1, Len(s)) = s

\* C25: every call attempt that ends non-fatally adds one record to the
\* result of its step and one entry to the pending-persistence queue: the
\* ids are never repeated, the ids of the recorded step results are at all
\* times the head of the queue, and when run() returns Ok the queue has one
\* entry per record of the session's step results, with the same ids in the
\* same order (and the same success and error).
C25_QueueMatchesRecords ==
    /\ \A i, j \in DOMAIN PendingIds : PendingIds[i] = PendingIds[j] => i = j
    /\ IsPrefix(RecordIds(step_results), PendingIds)
    /\ (pc = "done" /\ run_result.kind = "Ok") =>
           /\ RecordIds(step_results) = PendingIds
           /\ \A k \in 1..Len(step_results) :
                  \A r \in DOMAIN step_results[k].tool_executions :
                      \E q \in DOMAIN pending_tool_executions :
                          pending_tool_executions[q] =
                              PendingInput(step_results[k].tool_executions[r])

\* a run that returned Ok after a step with a failed and a successful call
C25_Witness ==
    /\ pc = "done"
    /\ run_result.kind = "Ok"
    /\ Len(pending_tool_executions) >= 2
    /\ \E q \in DOMAIN pending_tool_executions : ~pending_tool_executions[q].success
    /\ \E q \in DOMAIN pending_tool_executions : pending_tool_executions[q].success

\* the records are in the order of the calls of the batch, and their
\* iteration numbers do not go down
InCallOrder(recs) ==
    \A j, k \in DOMAIN recs :
        j < k => recs[j].call < recs[k].call /\ recs[j].iteration <= recs[k].iteration

\* C27: in the aggregated StepResult of a parallel batch the tool execution
\* records and the per-call summaries are in the original call order
\* (ascending iteration numbers), also when calls of the batch fail preflight.
C27_ParallelInCallOrder ==
    ParallelResultReady =>
        /\ InCallOrder(step.result.tool_executions)
        /\ InCallOrder(agg.results_summary)

\* the error of the failed record whose call comes first in the batch
FirstFailingCallError(recs) ==
    IF \A i \in DOMAIN recs : recs[i].success THEN NoError
    ELSE recs[CHOOSE i \in DOMAIN recs :
                 /\ ~recs[i].success
                 /\ \A j \in DOMAIN recs : ~recs[j].success => recs[i].call <= recs[j].call].error

\* the aggregated result of a batch that ran its calls is ready to be recorded
BatchResultReady ==
    pc = "record_step" /\ step.type = "tool_batch" /\ step.mode \in {"parallel", "sequential"}

\* C28: the error of an aggregated batch StepResult, parallel or sequential,
\* is the error of the first failing call in call order, and there is none
\* when no call failed.
C28_FirstFailingCallError ==
    BatchResultReady =>
        /\ step.result.error = FirstFailingCallError(step.result.tool_executions)
        /\ step.result.success <=> step.result.error = NoError

\* the call of worker w panicked while it was executed: its handler died on
\* the handler thread (the channel is found disconnected), or the
\* classification of its value panicked on the worker thread
PanickedInHandler(w) == workers[w].outcome = "disconnected"
PanickedInClassification(w) == workers[w].outcome = "panic"

RecordOfWorker(w) ==
    CHOOSE r \in {step.result.tool_executions[i] : i \in DOMAIN step.result.tool_executions} :
        r.execution_id = agg.runnable_calls[w].execution_id

\* C29: when a call of a parallel batch panics while it is executed, in the
\* tool handler or in the classification of its result, the record of that
\* call has success=false and the error "Tool execution panicked".
C29_PanicRecord ==
    ParallelResultReady =>
        \A w \in DOMAIN workers :
            (PanickedInHandler(w) \/ PanickedInClassification(w)) =>
                /\ ~RecordOfWorker(w).success
                /\ RecordOfWorker(w).error = ToolPanicked

\* the controller thread is inside execute_tool_handler_with_timeout
InHandlerCall == pc \in {"tool_check", "tool_recv", "tool_direct"}
InTimeoutLoop == pc \in {"tool_check", "tool_recv"}

\* C30: every tool invocation returns control to the controller, whatever the
\* configured tool_execution_timeout_ms and even if the handler never
\* returns.
C30_InvocationReturns == InHandlerCall ~> ~InHandlerCall

\* with a positive tool_execution_timeout_ms the invocation does return
C30_TimeoutLoopReturns == InTimeoutLoop ~> ~InTimeoutLoop


\* what the precedence of the overrides gives for a tool: the conversation
\* override if the conversation has one, else the global one if there is one,
\* else the default of the tool's metadata
OverridePrecedence(conv, global, default) ==
    IF conv # "none" THEN conv = "yes"
    ELSE IF global # "none" THEN global = "yes"
    ELSE default

\* C31: whether a tool call requires approval is the per-conversation
\* override when one exists, otherwise the global override when one exists,
\* otherwise the tool's declared default (the lookups answering what is
\* stored); a conversation override of false lets the tool run without
\* approval whatever the global override and the default say.
C31_OverridePrecedence ==
    Returned("resolve_requires_approval") =>
        LET t == arg.tool_name
            conv == conv_override[t]
            global == global_override[t]
        IN /\ (conv # "error" /\ (conv = "none" => global # "error")) =>
                  ret.value = OverridePrecedence(conv, global, DefaultRequiresApproval[t])
           /\ conv = "no" => ret.value = FALSE

C31_Witness ==
    /\ Returned("resolve_requires_approval")
    /\ conv_override[arg.tool_name] = "no"
    /\ global_override[arg.tool_name] = "yes"
    /\ DefaultRequiresApproval[arg.tool_name]
    /\ ret.value = FALSE

\* a failed lookup of the conversation override ends with the declared
\* default, without asking the global override
C31_WitnessLookupFailed ==
    /\ Returned("resolve_requires_approval")
    /\ conv_override[arg.tool_name] = "error"
    /\ global_override[arg.tool_name] = "no"
    /\ ret.value = TRUE

\* the call is one of an introspection tool that takes a reference id, made
\* without a non-blank id
NeedsReferenceId ==
    /\ Returned("hydrate_tool_args_for_execution")
    /\ ToolOutputsToolSupportsIdHydration(arg.tool_name)
    /\ ~ValueHasNonEmptyStringField(arg.args, "id")

\* the steps the lookup walks through, the most recent first
StepsNewestFirst ==
    (IF arg.last_step_result = Absent THEN <<>> ELSE <<arg.last_step_result>>)
    \o [i \in 1..Len(arg.history) |-> arg.history[Len(arg.history) + 1 - i]]

\* the reference of the first step of the sequence that has one
RECURSIVE FirstReference(_)
FirstReference(steps) ==
    IF steps = <<>> THEN NoId
    ELSE IF StepResultOutputRefId(steps[1]) # NoId THEN StepResultOutputRefId(steps[1])
    ELSE FirstReference(Tail(steps))

IsSuccessfulStep(r) == r.success

IdFilledWith(reference) ==
    IF reference = NoId THEN ~ValueHasNonEmptyStringField(ret.value, "id")
    ELSE Get(ret.value, "id") = Str(reference.id)

\* C32: an introspection tool that takes a reference id and is called without
\* a non-blank id gets the persisted output reference of the most recent
\* successful step that has one (the last step result first, then the
\* recorded step results from newest to oldest); a reference carried by a
\* failed step is never used.
C32_HydratesFromSuccessfulStep ==
    NeedsReferenceId =>
        IdFilledWith(FirstReference(SelectSeq(StepsNewestFirst, IsSuccessfulStep)))

\* what the lookup does: it takes the reference of the most recent step that
\* carries one, whether the step succeeded or failed
C32_HydratesFromAnyStep ==
    NeedsReferenceId =>
        IdFilledWith(FirstReference(StepsNewestFirst))

C32_WitnessFailedStepUsed ==
    /\ NeedsReferenceId
    /\ arg.last_step_result # Absent
    /\ ~arg.last_step_result.success
    /\ \E i \in DOMAIN arg.history :
          arg.history[i].success /\ StepResultOutputRefId(arg.history[i]) # NoId
    /\ Get(ret.value, "id") = Str(<<"stale">>)

\* the result of the step of the last decision has just been recorded
StepJustRecorded ==
    \/ pc = "step_complete"
    \/ pc = "loop_top" /\ turns > 0

\* C33: once the StepResult of a next_step is recorded the phase is
\* Controller for every step type except ask_user; an ask_user step does not
\* return to Controller: the phase is Executing from its dispatch until run()
\* finishes in phase Complete with the question as the response.
C33_PhaseAfterStep ==
    /\ (StepJustRecorded /\ StepInOutcome.type # "ask_user") => phase = "Controller"
    /\ (decided # <<>> /\ StepInOutcome.action = "next_step" /\ StepInOutcome.type = "ask_user") =>
          /\ pc \in {"record_step", "step_complete", "done"}
          /\ pc \in {"record_step", "step_complete"} =>
                phase = "Executing" /\ run_result = NoRun
          /\ pc = "step_complete" => ResultInOutcome = MessageStepResult("ask_user", "question")
          /\ pc = "done" =>
                /\ phase = "Complete"
                /\ run_result = Ok(StepInOutcome.message)
                /\ StepInOutcome.message = "question"
                /\ requested_user_input

C33_Witness ==
    /\ pc = "step_complete"
    /\ StepInOutcome.type = "ask_user"
    /\ phase = "Executing"
    /\ Len(step_results) = 2
    /\ step_results[1].tool_executions # <<>>

\* a respond step and a step ended by a denial are back in Controller before
\* run() finishes
C33_WitnessControllerBeforeFinish ==
    /\ pc = "step_complete"
    /\ phase = "Controller"
    /\ IsDenialMarker(ResultInOutcome.error)

\* the StepResults of the run so far, the one about to be recorded included
StepResultsSoFar ==
    {step_results[i] : i \in DOMAIN step_results}
    \cup (IF step.result = NoResult THEN {} ELSE {step.result})

CarriesCounters(result) == "executed_calls" \in DOMAIN result.output

\* C34: every batch StepResult that carries the counters has
\* executed_calls + dropped_calls = requested_calls and
\* successful_calls + failed_calls = executed_calls = number of tool execution
\* records of the step, and it is successful exactly when failed_calls = 0.
C34_BatchCounters ==
    \A result \in StepResultsSoFar :
        CarriesCounters(result) =>
            LET o == result.output
            IN /\ o.executed_calls + o.dropped_calls = o.requested_calls
               /\ o.successful_calls + o.failed_calls = o.executed_calls
               /\ o.executed_calls = Len(result.tool_executions)
               /\ o.successful_calls =
                      Cardinality({j \in DOMAIN result.tool_executions :
                                      result.tool_executions[j].success})
               /\ result.success <=> (o.failed_calls = 0)
               /\ o.success = result.success

C34_Witness ==
    \E i \in DOMAIN step_results :
        /\ CarriesCounters(step_results[i])
        /\ step_results[i].output.dropped_calls = 1
        /\ step_results[i].output.failed_calls = 1
        /\ step_results[i].output.execution_mode = "parallel"

C34_WitnessSequential ==
    \E i \in DOMAIN step_results :
        /\ CarriesCounters(step_results[i])
        /\ step_results[i].output.execution_mode = "sequential"
        /\ step_results[i].output.successful_calls = 1
        /\ step_results[i].output.failed_calls = 1

DistinctIterations(recs) ==
    \A j, k \in DOMAIN recs : j # k => recs[j].iteration # recs[k].iteration

\* C35: within one step no two ToolExecutionRecords carry the same iteration
\* number: every call of the step, a call that fails preflight or is denied
\* included, gets an iteration number of its own.
C35_DistinctIterations ==
    /\ \A result \in StepResultsSoFar : DistinctIterations(result.tool_executions)
    /\ DistinctIterations(agg.aggregated_tool_executions)

\* the numbers of the calls that ran are distinct: a handler invocation takes
\* the next number of the step
C35_DistinctIterationsOfInvoked ==
    \A result \in StepResultsSoFar :
        \A j, k \in DOMAIN result.tool_executions :
            LET rj == result.tool_executions[j]
                rk == result.tool_executions[k]
            IN (/\ j # k
                /\ \E v \in invoked : v.execution_id = rj.execution_id
                /\ \E v \in invoked : v.execution_id = rk.execution_id)
               => rj.iteration # rk.iteration

\* C36: whenever run() returns Ok, every plan step has status Completed or
\* Failed and carries its result, and the number of recorded StepResults
\* equals the number of plan steps.
C36_OkLeavesNoOpenStep ==
    run_result.kind = "Ok" =>
        /\ Len(step_results) = Len(plan.steps)
        /\ \A i \in DOMAIN plan.steps :
              /\ plan.steps[i].status \in {"Completed", "Failed"}
              /\ plan.steps[i].has_result
              /\ plan.steps[i].status = StepStatus(step_results[i])

C36_Witness ==
    /\ run_result.kind = "Ok"
    /\ Len(plan.steps) = 2
    /\ plan.steps[1].status = "Failed"
    /\ plan.steps[2].status = "Completed"

\* the last decision of the model is a next_step of type respond
RespondStepDecided ==
    /\ decided # <<>>
    /\ StepInOutcome.action = "next_step"
    /\ StepInOutcome.type = "respond"

\* C37: a next_step of type respond ends the run: its StepResult is recorded
\* as successful with no tool records, run() returns the message of the step
\* as the final response with the phase Complete, and the model is not
\* called again.
C37_RespondEndsRun ==
    RespondStepDecided =>
        /\ pc \in {"record_step", "step_complete", "done"}
        /\ llm_calls = Len(decided)
        /\ pc = "record_step" => run_result = NoRun /\ Len(step_results) = Len(plan.steps) - 1
        /\ pc \in {"step_complete", "done"} =>
              /\ Len(step_results) = Len(plan.steps)
              /\ ResultInOutcome.success
              /\ ResultInOutcome.error = NoError
              /\ ResultInOutcome.tool_executions = <<>>
              /\ ResultInOutcome.output = [message |-> StepInOutcome.message]
        /\ pc = "step_complete" => run_result = NoRun
        /\ pc = "done" =>
              /\ run_result = Ok(StepInOutcome.message)
              /\ phase = "Complete"

C37_Witness ==
    /\ RespondStepDecided
    /\ pc = "done"
    /\ run_result = Ok("reply")
    /\ Len(step_results) = 2
    /\ step_results[1].tool_executions # <<>>
    /\ ~cancel_flag

\* the positions in the event log of the completed events of an execution
\* that come after position q
CompletionsAfter(q) ==
    {c \in DOMAIN events :
        /\ c > q
        /\ events[c].type = "completed"
        /\ events[c].execution_id = events[q].execution_id}

StartedThenCompleted ==
    \A q \in DOMAIN events :
        events[q].type = "started" => Cardinality(CompletionsAfter(q)) = 1

\* run() was left by the cancellation check of the dispatch loop of a
\* parallel batch, or by the unwinding of a panic
AbortedInDispatch == step.mode = "parallel" /\ run_result = Err(ErrCancelled)
Unwound == run_result.kind = "Panic"

\* C38: every tool-execution-started event published during a run is
\* followed, before run() returns, by exactly one tool-execution-completed
\* event with the same execution id, also when the run is cancelled while a
\* batch is being dispatched.
C38_StartedThenCompleted == (pc = "done" /\ ~Unwound) => StartedThenCompleted

\* ... which holds for every return of run() but the one from the dispatch
\* loop
C38_StartedThenCompletedOutsideDispatch ==
    (pc = "done" /\ ~AbortedInDispatch /\ ~Unwound) => StartedThenCompleted

C38_WitnessOrphanedStart ==
    /\ pc = "done"
    /\ AbortedInDispatch
    /\ \E q \in DOMAIN events : events[q].type = "started" /\ CompletionsAfter(q) = {}

\* the controller is at the head of an approval poll with the flag set
PollBeginsCancelled == pc = "approval_check" /\ cancel_flag

CancelledRecord ==
    ToolExecutionRecord(call.execution_id, step.idx, call.tool, FALSE, ToolCancelled,
                        call.iteration)

\* C39: cancellation wins over a pending approval: when the cancellation flag
\* is set as an approval poll begins, the call is denied with the reason
\* "Tool execution cancelled" and its handler is not invoked, also when an
\* Approved decision is waiting on the resolution channel.
C39_CancellationWinsOverApproval ==
    /\ [][(PollBeginsCancelled /\ pc' # pc) =>
             /\ pc' = "call_return"
             /\ invoked' = invoked
             /\ call'.result = ToolStepResult(CancelledRecord, NoOutput)
             /\ events' = Append(events, DeniedEvent(call.execution_id, "cancellation"))
             /\ approval_rx' = approval_rx]_vars
    /\ [](\A q \in DOMAIN events :
             events[q].cause = "cancellation" =>
                 \A v \in invoked : v.execution_id # events[q].execution_id)

C39_Witness ==
    /\ pc = "call_return"
    /\ approval_rx = "Approved"
    /\ call.result = ToolStepResult(CancelledRecord, NoOutput)
    /\ \A v \in invoked : v.execution_id # call.execution_id

\* execute_tool_batch_sequential has its StepResult
SequentialResultReady == pc = "record_step" /\ step.mode = "sequential"

\* the execution was approved by the approver
Approved(execution_id) == \E q \in DOMAIN events : events[q] = Event("approved", execution_id)

\* the run was left from inside a sequential batch
LeftInSequentialBatch == pc = "done" /\ step.mode = "sequential"

C40_WitnessApprovedAfterDenial ==
    /\ SequentialResultReady
    /\ Len(step.result.tool_executions) = 2
    /\ step.result.tool_executions[1].error = DeniedByApproval
    /\ Approved(step.result.tool_executions[2].execution_id)
    /\ step.result.tool_executions[2].success
====
